---- MODULE Spec2Model ----
(***************************************************************************)
(* Model of the voicevo acoustic analysis pipeline (Rust).                 *)
(*                                                                         *)
(* The sample buffer is modelled at the granularity the analysis uses it:  *)
(* one entry per hop position, holding what the external McLeod detector   *)
(* returns for the window at that position under the standard and under    *)
(* the relaxed thresholds, and the RMS level (dB) of the frame there.      *)
(* The detector is a library: its answer is a nondeterministic choice,     *)
(* except that an all-zero window has power 0, below every power           *)
(* threshold, and yields no pitch.                                         *)
(*                                                                         *)
(* f32 quantities are exact rationals <<num, den>> or integers in the      *)
(* unit named by the definition (ms, Hz, dB, percent).                     *)
(***************************************************************************)
EXTENDS Integers, Sequences, FiniteSets, TLC

VARIABLES
    pc,         \* position of the exercise-analysis caller
    config,     \* PitchConfig in use
    buffer,     \* the loaded sample buffer (frame-level view), <<>> once dropped
    silent,     \* whether the loaded buffer was all-zero
    result,     \* ContourResult of the last pitch detection
    metrics,    \* raw Option results of the metric functions of the last analysis
    out,        \* Result<...Analysis> of the last analysis
    a_pc, a_input, a_config, a_result,      \* activity detection
    c_pc, c_contour, c_hop, c_out,          \* contour functions
    c_runs, c_gap,                          \* run list and tolerance given to merging
    s_pc, s_paths, s_wavs, s_analysis, s_attempted, s_store,  \* session analysis
    r_pc, r_in, r_out,  \* reliability computation
    f_pc, f_in, f_pos, f_contour, f_energy, f_mask, f_cpps,  \* frame loops over one buffer
    p_pc, p_in, p_left, p_first, p_second,  \* repeated analysis of one buffer
    k_pc, k_kind, k_stop, k_cb, k_next, k_tx, k_chan, k_sent, k_late, k_col, k_all, k_wav, k_pitch, k_buffer, k_seen,  \* audio capture threads
    h_pc, h_in, h_i, h_is_active, h_mask,  \* hysteresis loop of activity detection
    j_pc, j_contour, j_tiers, j_amps, j_hop, j_out,  \* jitter and shimmer of one contour
    e_pc, e_views, e_config, e_result,  \* tiered pitch extraction of one buffer
    q_pc, q_frequencies, q_p, q_out,  \* percentiles of one list of frequencies
    y_pc, y_contour, y_active, y_r, y_out,  \* periodicity of one contour under an activity mask
    w_pc, w_screen, w_elapsed, w_silent_polls, w_event, w_streak, w_outcome   \* the recording screen's poll loop; w_streak: consecutive silent polls after the minimum duration

vars == <<pc, config, buffer, silent, result, metrics, out,
          a_pc, a_input, a_config, a_result,
          c_pc, c_contour, c_hop, c_out, c_runs, c_gap,
          s_pc, s_paths, s_wavs, s_analysis, s_attempted, s_store,
          r_pc, r_in, r_out,
          f_pc, f_in, f_pos, f_contour, f_energy, f_mask, f_cpps,
          p_pc, p_in, p_left, p_first, p_second,
          k_pc, k_kind, k_stop, k_cb, k_next, k_tx, k_chan, k_sent, k_late, k_col, k_all, k_wav, k_pitch, k_buffer, k_seen,
          h_pc, h_in, h_i, h_is_active, h_mask,
          j_pc, j_contour, j_tiers, j_amps, j_hop, j_out,
          e_pc, e_views, e_config, e_result,
          q_pc, q_frequencies, q_p, q_out,
          y_pc, y_contour, y_active, y_r, y_out,
          w_pc, w_screen, w_elapsed, w_silent_polls, w_event, w_streak, w_outcome>>

exerciseVars == <<pc, config, buffer, silent, result, metrics, out>>
activityVars == <<a_pc, a_input, a_config, a_result>>
contourVars  == <<c_pc, c_contour, c_hop, c_out, c_runs, c_gap>>
sessionVars  == <<s_pc, s_paths, s_wavs, s_analysis, s_attempted, s_store>>
reliabilityVars == <<r_pc, r_in, r_out>>
framesVars == <<f_pc, f_in, f_pos, f_contour, f_energy, f_mask, f_cpps>>
repeatVars == <<p_pc, p_in, p_left, p_first, p_second>>
captureVars == <<k_pc, k_kind, k_stop, k_cb, k_next, k_tx, k_chan, k_sent, k_late, k_col, k_all, k_wav, k_pitch, k_buffer, k_seen>>
hysteresisVars == <<h_pc, h_in, h_i, h_is_active, h_mask>>
perturbationVars == <<j_pc, j_contour, j_tiers, j_amps, j_hop, j_out>>
fallbackVars == <<e_pc, e_views, e_config, e_result>>
percentileVars == <<q_pc, q_frequencies, q_p, q_out>>
periodicityVars == <<y_pc, y_contour, y_active, y_r, y_out>>
screenVars == <<w_pc, w_screen, w_elapsed, w_silent_polls, w_event, w_streak, w_outcome>>

\* the variables an action of one part of the program leaves alone
notExercise == <<activityVars, contourVars, sessionVars, reliabilityVars, framesVars, repeatVars, captureVars, hysteresisVars, perturbationVars, fallbackVars, percentileVars, periodicityVars, screenVars>>
notActivity == <<exerciseVars, contourVars, sessionVars, reliabilityVars, framesVars, repeatVars, captureVars, hysteresisVars, perturbationVars, fallbackVars, percentileVars, periodicityVars, screenVars>>
notContour == <<exerciseVars, activityVars, sessionVars, reliabilityVars, framesVars, repeatVars, captureVars, hysteresisVars, perturbationVars, fallbackVars, percentileVars, periodicityVars, screenVars>>
notSession == <<exerciseVars, activityVars, contourVars, reliabilityVars, framesVars, repeatVars, captureVars, hysteresisVars, perturbationVars, fallbackVars, percentileVars, periodicityVars, screenVars>>
notReliability == <<exerciseVars, activityVars, contourVars, sessionVars, framesVars, repeatVars, captureVars, hysteresisVars, perturbationVars, fallbackVars, percentileVars, periodicityVars, screenVars>>
notFrames == <<exerciseVars, activityVars, contourVars, sessionVars, reliabilityVars, repeatVars, captureVars, hysteresisVars, perturbationVars, fallbackVars, percentileVars, periodicityVars, screenVars>>
notRepeat == <<exerciseVars, activityVars, contourVars, sessionVars, reliabilityVars, framesVars, captureVars, hysteresisVars, perturbationVars, fallbackVars, percentileVars, periodicityVars, screenVars>>
notCapture == <<exerciseVars, activityVars, contourVars, sessionVars, reliabilityVars, framesVars, repeatVars, hysteresisVars, perturbationVars, fallbackVars, percentileVars, periodicityVars, screenVars>>
notHysteresis == <<exerciseVars, activityVars, contourVars, sessionVars, reliabilityVars, framesVars, repeatVars, captureVars, perturbationVars, fallbackVars, percentileVars, periodicityVars, screenVars>>
notPerturbation == <<exerciseVars, activityVars, contourVars, sessionVars, reliabilityVars, framesVars, repeatVars, captureVars, hysteresisVars, fallbackVars, percentileVars, periodicityVars, screenVars>>
notFallback == <<exerciseVars, activityVars, contourVars, sessionVars, reliabilityVars, framesVars, repeatVars, captureVars, hysteresisVars, perturbationVars, percentileVars, periodicityVars, screenVars>>
notPercentile == <<exerciseVars, activityVars, contourVars, sessionVars, reliabilityVars, framesVars, repeatVars, captureVars, hysteresisVars, perturbationVars, fallbackVars, periodicityVars, screenVars>>
notPeriodicity == <<exerciseVars, activityVars, contourVars, sessionVars, reliabilityVars, framesVars, repeatVars, captureVars, hysteresisVars, perturbationVars, fallbackVars, percentileVars, screenVars>>
notScreen == <<exerciseVars, activityVars, contourVars, sessionVars, reliabilityVars, framesVars, repeatVars, captureVars, hysteresisVars, perturbationVars, fallbackVars, percentileVars, periodicityVars>>

----------------------------------------------------------------------------
(* Bounds of the model *)

\* arbitrary (non-silent) frames in a buffer
MaxFrames == 2
\* all-zero frames in a buffer (a pause after the first frame, or the whole buffer)
MaxPad == 9
\* frames of a contour given to the contour functions
MaxLen == 8
\* frames spanned by a run list given to merging, and its tolerance (frames)
MaxMarks == 6
MaxGap == 3
\* the largest frame count of one tier
MaxCount == 3
\* samples of a buffer given to the frame loops, and iterations of a loop that
\* does not advance
MaxSamples == 44
MaxSpin == 3
\* arbitrary frames of a buffer that is analysed twice
MaxRepeatFrames == 2
\* chunks the audio device delivers during one recording
MaxChunks == 3
\* frames given to the hysteresis loop
MaxLevels == 4
\* arbitrary frames, and all-zero frames, of a buffer given to activity detection
MaxActive == 3
MaxSilence == 12

----------------------------------------------------------------------------
(* Option<T>, f32 *)

None == <<>>
Some(v) == <<v>>
is_some(o) == o # <<>>
unwrap(o) == o[1]
unwrap_or(o, d) == IF is_some(o) THEN unwrap(o) ELSE d
or_else(o, alt) == IF is_some(o) THEN o ELSE alt

RECURSIVE GCD(_, _)
GCD(a, b) == IF b = 0 THEN a ELSE GCD(b, a % b)

\* an f32 value as a normalised rational; den > 0
Rat(n, d) == LET g == GCD(IF n < 0 THEN -n ELSE n, d) IN <<n \div g, d \div g>>
Zero == <<0, 1>>
Abs(x) == IF x < 0 THEN -x ELSE x

RECURSIVE SumSeq(_)
SumSeq(s) == IF s = <<>> THEN 0 ELSE Head(s) + SumSeq(Tail(s))

RECURSIVE sort_by(_)
sort_by(s) ==
    IF s = <<>> THEN <<>>
    ELSE LET rest == sort_by(Tail(s))
             x == Head(s)
             k == Cardinality({i \in 1..Len(rest) : rest[i] < x})
         IN SubSeq(rest, 1, k) \o <<x>> \o SubSeq(rest, k + 1, Len(rest))

SeqsUpTo(S, n) == UNION {[1..k -> S] : k \in 0..n}

----------------------------------------------------------------------------
(* dsp/pitch.rs *)

\* percent
MIN_VOICED_FRACTION == 20
MIN_VOICED_FRACTION_RELAXED == 10
\* dB
ENERGY_THRESHOLD_DB == -45
\* f32::NEG_INFINITY, the level of a frame whose RMS is 0
NEG_INFINITY == -1000
\* Hz, "default male speaking pitch"
DEFAULT_F0 == 100

\* PitchConfig::default(), and two configurations a config.toml can set
PitchConfigDefault == [pitch_floor_hz |-> 30, pitch_ceiling_hz |-> 1000, hop_size_ms |-> 10]
Configs == { PitchConfigDefault,
             [pitch_floor_hz |-> 150, pitch_ceiling_hz |-> 1000, hop_size_ms |-> 10],
             [pitch_floor_hz |-> 30,  pitch_ceiling_hz |-> 150,  hop_size_ms |-> 50] }

\* the frequency the detector may report (Hz): inside the default range, above the
\* ceiling of the third configuration
Freqs == {200}
\* RMS levels of a frame that is not all-zero (dB)
Levels == {-45, -40}

\* What one hop position of the buffer yields: the detector's answer under the
\* standard and the relaxed thresholds, and the frame's RMS level.
FrameViews == [std : {None} \cup {Some(f) : f \in Freqs},
               rel : {None} \cup {Some(f) : f \in Freqs},
               rms_db : Levels]
\* An all-zero window: power 0 is below the power threshold of both tiers.
ZeroView == [std |-> None, rel |-> None, rms_db |-> NEG_INFINITY]

\* The frames of a buffer: head[1], then pad all-zero frames, then the rest of head.
Frames(b) ==
    LET zeros == [i \in 1..b.pad |-> ZeroView]
    IN IF b.head = <<>> THEN zeros
       ELSE <<Head(b.head)>> \o zeros \o Tail(b.head)

Buffers == [head : SeqsUpTo(FrameViews, MaxFrames), pad : 0..MaxPad]

PitchFrame(t, f) == [time |-> t, frequency |-> f]

\* the range filter of extract_pitch_contour
in_range(f, cfg) == f >= cfg.pitch_floor_hz /\ f <= cfg.pitch_ceiling_hz

\* pitch: the detector's answer per hop position
extract_pitch_contour(pitch, cfg) ==
    [i \in 1..Len(pitch) |->
        PitchFrame((i - 1) * cfg.hop_size_ms,
                   IF is_some(pitch[i]) /\ in_range(unwrap(pitch[i]), cfg)
                   THEN pitch[i] ELSE None)]

\* an energy contour that also marks a frame exactly at the threshold
energy_based_contour_at_threshold(rms_db, cfg, estimated_f0, rms_threshold_db) ==
    [i \in 1..Len(rms_db) |->
        PitchFrame((i - 1) * cfg.hop_size_ms,
                   IF rms_db[i] >= rms_threshold_db THEN Some(estimated_f0) ELSE None)]

energy_based_contour(rms_db, cfg, estimated_f0, rms_threshold_db) ==
    [i \in 1..Len(rms_db) |->
        PitchFrame((i - 1) * cfg.hop_size_ms,
                   IF rms_db[i] > rms_threshold_db THEN Some(estimated_f0) ELSE None)]

voiced_frequencies(contour) ==
    LET v == SelectSeq(contour, LAMBDA fr : is_some(fr.frequency))
    IN [i \in 1..Len(v) |-> unwrap(v[i].frequency)]

\* voiced / len as a fraction <<voiced, len>>; 0.0 for an empty contour
voiced_fraction(contour) ==
    IF contour = <<>> THEN <<0, 1>>
    ELSE <<Len(voiced_frequencies(contour)), Len(contour)>>

\* frac_ge with a strict comparison: a detection that rejects a tier whose voiced
\* fraction equals the threshold
frac_gt(frac, pct) == frac[1] * 100 > pct * frac[2]

\* frac >= pct / 100
frac_ge(frac, pct) == frac[1] * 100 >= pct * frac[2]

extract_contour_with_fallback(views, cfg) ==
    LET contour == extract_pitch_contour([i \in 1..Len(views) |-> views[i].std], cfg)
        relaxed_contour == extract_pitch_contour([i \in 1..Len(views) |-> views[i].rel], cfg)
        frequencies == voiced_frequencies(relaxed_contour)
        estimated_f0 == IF frequencies # <<>>
                        THEN sort_by(frequencies)[(Len(frequencies) \div 2) + 1]
                        ELSE DEFAULT_F0
        energy_contour == energy_based_contour([i \in 1..Len(views) |-> views[i].rms_db],
                                               cfg, estimated_f0, ENERGY_THRESHOLD_DB)
    IN IF frac_ge(voiced_fraction(contour), MIN_VOICED_FRACTION)
       THEN [contour |-> contour, detection_quality |-> "pitch",
             used_energy_fallback |-> FALSE]
       ELSE IF frac_ge(voiced_fraction(relaxed_contour), MIN_VOICED_FRACTION_RELAXED)
       THEN [contour |-> relaxed_contour, detection_quality |-> "relaxed_pitch",
             used_energy_fallback |-> FALSE]
       ELSE [contour |-> energy_contour, detection_quality |-> "energy_fallback",
             used_energy_fallback |-> TRUE]

----------------------------------------------------------------------------
(* dsp/contour.rs -- run indices are 1-based here, 0-based in the source *)

RECURSIVE voiced_runs_scan(_, _, _, _)
voiced_runs_scan(contour, i, start, runs) ==
    IF i > Len(contour)
    THEN IF is_some(start) THEN Append(runs, <<unwrap(start), Len(contour)>>) ELSE runs
    ELSE LET voiced == is_some(contour[i].frequency)
         IN IF voiced /\ ~is_some(start) THEN voiced_runs_scan(contour, i + 1, Some(i), runs)
            ELSE IF voiced THEN voiced_runs_scan(contour, i + 1, start, runs)
            ELSE IF is_some(start)
                 THEN voiced_runs_scan(contour, i + 1, None, Append(runs, <<unwrap(start), i - 1>>))
            ELSE voiced_runs_scan(contour, i + 1, start, runs)

\* voiced_runs that does not look at the first frame
voiced_runs_after_first(contour) == voiced_runs_scan(contour, 2, None, <<>>)

voiced_runs(contour) == voiced_runs_scan(contour, 1, None, <<>>)

saturating_sub(a, b) == IF a >= b THEN a - b ELSE 0

\* bridges with a strict comparison: a gap of exactly max_gap_frames is not bridged
bridges_below(start, cur_end, max_gap_frames) ==
    saturating_sub(start, cur_end + 1) < max_gap_frames

\* whether the run that follows cur_end at start is unioned with the current one
bridges(start, cur_end, max_gap_frames) ==
    saturating_sub(start, cur_end + 1) <= max_gap_frames

\* merge_scan that leaves a merged run's end at the end of its first run
RECURSIVE merge_scan_first_end(_, _, _, _, _)
merge_scan_first_end(rest, cur_start, cur_end, merged, max_gap_frames) ==
    IF rest = <<>> THEN Append(merged, <<cur_start, cur_end>>)
    ELSE IF bridges(Head(rest)[1], cur_end, max_gap_frames)
    THEN merge_scan_first_end(Tail(rest), cur_start, cur_end, merged, max_gap_frames)
    ELSE merge_scan_first_end(Tail(rest), Head(rest)[1], Head(rest)[2],
                              Append(merged, <<cur_start, cur_end>>), max_gap_frames)

RECURSIVE merge_scan(_, _, _, _, _)
merge_scan(rest, cur_start, cur_end, merged, max_gap_frames) ==
    IF rest = <<>> THEN Append(merged, <<cur_start, cur_end>>)
    ELSE LET start == Head(rest)[1]
             end == Head(rest)[2]
         IN IF bridges(start, cur_end, max_gap_frames)
            THEN merge_scan(Tail(rest), cur_start, end, merged, max_gap_frames)
            ELSE merge_scan(Tail(rest), start, end,
                            Append(merged, <<cur_start, cur_end>>), max_gap_frames)

\* merge_close_runs that stops after the first union
merge_first_pair(runs, max_gap_frames) ==
    IF Len(runs) < 2 THEN runs
    ELSE IF bridges(runs[2][1], runs[1][2], max_gap_frames)
    THEN <<<<runs[1][1], runs[2][2]>>>> \o SubSeq(runs, 3, Len(runs))
    ELSE runs

merge_close_runs(runs, max_gap_frames) ==
    IF runs = <<>> THEN <<>>
    ELSE merge_scan(Tail(runs), runs[1][1], runs[1][2], <<>>, max_gap_frames)

\* in ms (the source divides by 1000 to report seconds)
run_duration_secs(start, end, hop_size_ms) == (end - start + 1) * hop_size_ms

\* a percentile that truncates p * (len - 1) instead of rounding it
percentile_truncated(sorted, p) ==
    sorted[(p * (Len(sorted) - 1)) \div 100 + 1]

\* p in percent; idx = round(p * (len - 1))
percentile(sorted, p) ==
    LET idx == (p * (Len(sorted) - 1) + 50) \div 100
        last == Len(sorted) - 1
    IN sorted[(IF idx < last THEN idx ELSE last) + 1]

----------------------------------------------------------------------------
(* dsp/mpt.rs, dsp/voice_breaks.rs *)

\* ms
MPT_BRIDGE_MS == 250
MIN_GAP_MS == 50
DEFAULT_MAX_BREAK_MS == 250

RECURSIVE fold_max(_, _)
fold_max(s, acc) ==
    IF s = <<>> THEN acc
    ELSE fold_max(Tail(s), IF Head(s) > acc THEN Head(s) ELSE acc)

\* in ms
max_phonation_time_secs(contour, hop_size_ms, max_bridge_ms) ==
    LET max_gap_frames == max_bridge_ms \div hop_size_ms
        runs == merge_close_runs(voiced_runs(contour), max_gap_frames)
    IN fold_max([i \in 1..Len(runs) |->
                    run_duration_secs(runs[i][1], runs[i][2], hop_size_ms)], 0)

\* is_break with the lower bound excluded
is_break_above(gap_ms, min_gap_ms, max_gap_ms) == gap_ms > min_gap_ms /\ gap_ms <= max_gap_ms

\* whether a gap of gap_ms between two runs is a voice break
is_break(gap_ms, min_gap_ms, max_gap_ms) == gap_ms >= min_gap_ms /\ gap_ms <= max_gap_ms

count_voice_breaks(contour, hop_size_ms, max_break_ms) ==
    LET runs == voiced_runs(contour)
    IN IF Len(runs) < 2 THEN 0
       ELSE Cardinality({i \in 1..(Len(runs) - 1) :
                is_break((runs[i + 1][1] - runs[i][2] - 1) * hop_size_ms,
                         MIN_GAP_MS, max_break_ms)})

----------------------------------------------------------------------------
(* dsp/jitter.rs *)

MIN_GATED_FRAMES == 15
\* ms (1.5 s)
MIN_GATED_DURATION_MS == 1500

RAdd(a, b) == Rat(a[1] * b[2] + b[1] * a[2], a[2] * b[2])
RAbsDiff(a, b) == Rat(Abs(a[1] * b[2] - b[1] * a[2]), a[2] * b[2])
RDiv(a, b) == Rat(a[1] * b[2], a[2] * b[1])
RScale(a, k) == Rat(a[1] * k, a[2])

\* iter().sum(), the sequence split in halves
RECURSIVE RSum(_)
RSum(s) ==
    IF s = <<>> THEN Zero
    ELSE IF Len(s) = 1 THEN s[1]
    ELSE RAdd(RSum(SubSeq(s, 1, Len(s) \div 2)),
              RSum(SubSeq(s, Len(s) \div 2 + 1, Len(s))))

\* mean over a non-empty sequence of rationals
RMean(s) == LET t == RSum(s) IN Rat(t[1], t[2] * Len(s))

\* (mean_perturbation / mean_period) * 100, or None
perturbation_percent(perturbations, periods) ==
    IF perturbations = <<>> \/ periods = <<>> THEN None
    ELSE IF RMean(periods) = Zero THEN None
    ELSE Some(RScale(RDiv(RMean(perturbations), RMean(periods)), 100))

\* a scan that carries the previous period across an unvoiced frame
RECURSIVE jitter_scan_across_gaps(_, _, _, _)
jitter_scan_across_gaps(contour, keep, i, st) ==
    IF i > Len(contour) THEN st
    ELSE IF keep[i]
    THEN LET period == Rat(1, unwrap(contour[i].frequency))
             consecutive == st.consecutive + 1
         IN jitter_scan_across_gaps(contour, keep, i + 1,
                [periods |-> Append(st.periods, period),
                 perturbations |-> IF is_some(st.prev_period)
                                   THEN Append(st.perturbations,
                                               RAbsDiff(period, unwrap(st.prev_period)))
                                   ELSE st.perturbations,
                 prev_period |-> Some(period),
                 consecutive |-> consecutive,
                 max_consecutive |-> IF consecutive > st.max_consecutive
                                     THEN consecutive ELSE st.max_consecutive])
    ELSE jitter_scan_across_gaps(contour, keep, i + 1, st)

\* One pass of the jitter loops. keep[i]: frame i is a voiced frame the estimator uses.
\* Returns the periods, the perturbations and the longest chain.
RECURSIVE jitter_scan(_, _, _, _)
jitter_scan(contour, keep, i, st) ==
    IF i > Len(contour) THEN st
    ELSE IF keep[i]
    THEN LET period == Rat(1, unwrap(contour[i].frequency))
             consecutive == st.consecutive + 1
         IN jitter_scan(contour, keep, i + 1,
                [periods |-> Append(st.periods, period),
                 perturbations |-> IF is_some(st.prev_period)
                                   THEN Append(st.perturbations,
                                               RAbsDiff(period, unwrap(st.prev_period)))
                                   ELSE st.perturbations,
                 prev_period |-> Some(period),
                 consecutive |-> consecutive,
                 max_consecutive |-> IF consecutive > st.max_consecutive
                                     THEN consecutive ELSE st.max_consecutive])
    ELSE jitter_scan(contour, keep, i + 1,
                [st EXCEPT !.prev_period = None, !.consecutive = 0])

JitterStart == [periods |-> <<>>, perturbations |-> <<>>, prev_period |-> None,
                consecutive |-> 0, max_consecutive |-> 0]

local_jitter_percent(contour) ==
    LET st == jitter_scan(contour,
                          [i \in 1..Len(contour) |-> is_some(contour[i].frequency)],
                          1, JitterStart)
    IN perturbation_percent(st.perturbations, st.periods)

local_jitter_percent_gated(contour, frame_tiers, hop_size_ms) ==
    IF Len(contour) # Len(frame_tiers) THEN None
    ELSE LET st == jitter_scan(contour,
                        [i \in 1..Len(contour) |->
                            is_some(contour[i].frequency) /\ frame_tiers[i] <= 2],
                        1, JitterStart)
         IN IF st.max_consecutive < MIN_GATED_FRAMES THEN None
            ELSE IF Len(st.periods) * hop_size_ms < MIN_GATED_DURATION_MS THEN None
            ELSE perturbation_percent(st.perturbations, st.periods)

\* ContourResult.frame_tiers: the tier that produced each frame of the contour
frame_tiers(res) ==
    [i \in 1..Len(res.contour) |->
        IF res.detection_quality = "pitch" THEN 1
        ELSE IF res.detection_quality = "relaxed_pitch" THEN 2 ELSE 3]

----------------------------------------------------------------------------
(* dsp/activity.rs *)
(* The buffer is seen as the RMS level (dB) of each of its whole frames. *)

\* ActivityConfig::default(); thresholds in dB, durations in ms
ActivityConfigDefault ==
    [threshold_on_db |-> -45, threshold_off_db |-> -50,
     min_active_ms |-> 80, min_silent_ms |-> 120, frame_size_ms |-> 10]

\* ceil(a / b) for positive b
ceil_div(a, b) == (a + b - 1) \div b

\* the hysteresis loop: the mask so far and the state carried to the next frame
RECURSIVE hysteresis(_, _, _, _)
hysteresis(rms_db_values, cfg, is_active, mask) ==
    IF rms_db_values = <<>> THEN mask
    ELSE LET db == Head(rms_db_values)
             now == IF is_active THEN ~(db < cfg.threshold_off_db)
                    ELSE db >= cfg.threshold_on_db
         IN hysteresis(Tail(rms_db_values), cfg, now, Append(mask, now))

\* the end (exclusive) of the run of target_value that starts at i
RECURSIVE run_end(_, _, _)
run_end(frames, target_value, i) ==
    IF i <= Len(frames) /\ frames[i] = target_value
    THEN run_end(frames, target_value, i + 1) ELSE i

RECURSIVE remove_scan(_, _, _, _)
remove_scan(frames, target_value, min_length, i) ==
    IF i > Len(frames) THEN frames
    ELSE IF frames[i] = target_value
    THEN LET e == run_end(frames, target_value, i)
         IN remove_scan(IF e - i < min_length
                        THEN [k \in 1..Len(frames) |->
                                 IF k >= i /\ k < e THEN ~target_value ELSE frames[k]]
                        ELSE frames,
                        target_value, min_length, e)
    ELSE remove_scan(frames, target_value, min_length, i + 1)

remove_short_segments(frames, target_value, min_length) ==
    IF frames = <<>> \/ min_length = 0 THEN frames
    ELSE remove_scan(frames, target_value, min_length, 1)

active_fraction(active_frames) ==
    IF active_frames = <<>> THEN Zero
    ELSE Rat(Cardinality({i \in 1..Len(active_frames) : active_frames[i]}),
             Len(active_frames))

ActivityResult(active_frames) ==
    [active_frames |-> active_frames, active_fraction |-> active_fraction(active_frames)]

\* rms_db_values: the level of each whole frame of the buffer (none when the buffer
\* is shorter than a frame)
detect_activity(rms_db_values, cfg) ==
    IF rms_db_values = <<>> THEN ActivityResult(<<>>)
    ELSE ActivityResult(
            remove_short_segments(
                remove_short_segments(hysteresis(rms_db_values, cfg, FALSE, <<>>),
                                      TRUE,
                                      ceil_div(cfg.min_active_ms, cfg.frame_size_ms)),
                FALSE,
                ceil_div(cfg.min_silent_ms, cfg.frame_size_ms)))

----------------------------------------------------------------------------
(* dsp/shimmer.rs, dsp/hnr.rs, dsp/cpps.rs, dsp/periodicity.rs                 *)
(* What these compute from the raw samples (peak amplitudes, autocorrelation,  *)
(* cepstrum) is a measured value the model does not compute: `measured` is     *)
(* what the sample arithmetic yields, None when it yields nothing. The         *)
(* conditions on the contour under which the functions return None are theirs. *)

\* a measured value, or no result
OptMetric == {None, Some(<<3, 1>>)}
DspOutcomes == [shimmer : OptMetric, hnr : OptMetric, cpps : OptMetric,
                periodicity : OptMetric]

has_voiced(contour) == \E i \in 1..Len(contour) : is_some(contour[i].frequency)

has_voiced_pair(contour) ==
    \E i \in 1..(Len(contour) - 1) :
        is_some(contour[i].frequency) /\ is_some(contour[i + 1].frequency)

local_shimmer_percent(contour, measured) ==
    IF ~has_voiced_pair(contour) THEN None ELSE measured

local_shimmer_percent_gated(contour, tiers, hop_size_ms, measured) ==
    IF Len(contour) # Len(tiers) THEN None
    ELSE LET st == jitter_scan(contour,
                        [i \in 1..Len(contour) |->
                            is_some(contour[i].frequency) /\ tiers[i] <= 2],
                        1, JitterStart)
         IN IF st.max_consecutive < MIN_GATED_FRAMES THEN None
            ELSE IF Len(st.periods) * hop_size_ms < MIN_GATED_DURATION_MS THEN None
            ELSE IF st.perturbations = <<>> THEN None
            ELSE measured

compute_hnr_db(contour, measured) == IF ~has_voiced(contour) THEN None ELSE measured

compute_cpps(measured) == measured

compute_periodicity(contour, measured) == IF ~has_voiced(contour) THEN None ELSE measured

----------------------------------------------------------------------------
(* analysis/sustained.rs, analysis/reading.rs, analysis/scale.rs *)

Ok(v) == [ok |-> TRUE, value |-> v]
Err(e) == [ok |-> FALSE, error |-> e]
\* anyhow::bail!("No voiced frames detected in ... Recording may be silent or too quiet.")
NoVoicedContent == "No voiced frames detected"

mean_f0(frequencies) == Rat(SumSeq(frequencies), Len(frequencies))

\* the variance; the source reports its square root as f0_std_hz
variance(frequencies) ==
    LET n == Len(frequencies)
        total == SumSeq(frequencies)
    IN Rat(SumSeq([i \in 1..n |-> (frequencies[i] * n - total) * (frequencies[i] * n - total)]),
           n * n * n)

\* detection_quality_label that labels the energy fallback only
label_fallback_only(res) ==
    IF res.used_energy_fallback THEN Some(res.detection_quality) ELSE None

\* None when the contour came from the standard tier, else the tier's label
detection_quality_label(res) ==
    IF res.detection_quality = "pitch" THEN None ELSE Some(res.detection_quality)

sustained_jitter(res, cfg) ==
    IF res.used_energy_fallback THEN None
    ELSE or_else(local_jitter_percent_gated(res.contour, frame_tiers(res), cfg.hop_size_ms),
                 local_jitter_percent(res.contour))

sustained_shimmer(res, cfg, measured) ==
    IF res.used_energy_fallback THEN local_shimmer_percent(res.contour, measured)
    ELSE or_else(local_shimmer_percent_gated(res.contour, frame_tiers(res),
                                             cfg.hop_size_ms, measured),
                 local_shimmer_percent(res.contour, measured))

\* the record sustained::analyze builds from the metric functions' results
SustainedAnalysis(res, cfg, m) ==
    [mpt_seconds |-> max_phonation_time_secs(res.contour, cfg.hop_size_ms, MPT_BRIDGE_MS),
     mean_f0_hz |-> mean_f0(voiced_frequencies(res.contour)),
     f0_std_hz |-> variance(voiced_frequencies(res.contour)),
     jitter_local_percent |-> IF res.used_energy_fallback THEN Zero
                              ELSE unwrap_or(m.jitter, Zero),
     shimmer_local_percent |-> unwrap_or(m.shimmer, Zero),
     hnr_db |-> unwrap_or(m.hnr, Zero),
     cpps_db |-> m.cpps,
     periodicity_mean |-> m.periodicity,
     detection_quality |-> detection_quality_label(res)]

\* the metric functions' raw results on the detected contour
sustained_metrics(res, cfg, dsp) ==
    [jitter |-> sustained_jitter(res, cfg),
     shimmer |-> sustained_shimmer(res, cfg, dsp.shimmer),
     hnr |-> compute_hnr_db(res.contour, dsp.hnr),
     cpps |-> compute_cpps(dsp.cpps),
     periodicity |-> compute_periodicity(res.contour, dsp.periodicity)]

\* the body of sustained::analyze after the contour is detected
sustained_checked(res, cfg, m) ==
    IF voiced_frequencies(res.contour) = <<>>
    THEN [result |-> res, metrics |-> <<>>, out |-> Err(NoVoicedContent)]
    ELSE [result |-> res, metrics |-> m, out |-> Ok(SustainedAnalysis(res, cfg, m))]

sustained_detected(res, cfg, dsp) ==
    sustained_checked(res, cfg, sustained_metrics(res, cfg, dsp))

\* sustained::analyze; dsp: what the sample arithmetic of the buffer yields
sustained_analyze(views, cfg, dsp) ==
    sustained_detected(extract_contour_with_fallback(views, cfg), cfg, dsp)

\* reading_breaks without the energy-fallback gate
breaks_ungated(res, cfg) ==
    count_voice_breaks(res.contour, cfg.hop_size_ms, DEFAULT_MAX_BREAK_MS)

reading_breaks(res, cfg) ==
    IF res.used_energy_fallback THEN 0
    ELSE count_voice_breaks(res.contour, cfg.hop_size_ms, DEFAULT_MAX_BREAK_MS)

ReadingAnalysis(res, cfg, frequencies, sorted) ==
    [mean_f0_hz |-> mean_f0(frequencies),
     f0_std_hz |-> variance(frequencies),
     f0_range_hz |-> <<percentile(sorted, 5), percentile(sorted, 95)>>,
     voice_breaks |-> reading_breaks(res, cfg),
     voiced_fraction |-> voiced_fraction(res.contour),
     detection_quality |-> detection_quality_label(res)]

\* reading_detected that also fails on a single voiced frame
reading_needs_two(res, cfg, frequencies) ==
    IF Len(frequencies) < 2
    THEN [result |-> res, metrics |-> <<>>, out |-> Err(NoVoicedContent)]
    ELSE [result |-> res, metrics |-> <<>>,
          out |-> Ok(ReadingAnalysis(res, cfg, frequencies, sort_by(frequencies)))]

\* the body of reading::analyze after the contour is detected
reading_detected(res, cfg, frequencies) ==
    IF frequencies = <<>>
    THEN [result |-> res, metrics |-> <<>>, out |-> Err(NoVoicedContent)]
    ELSE [result |-> res, metrics |-> <<>>,
          out |-> Ok(ReadingAnalysis(res, cfg, frequencies, sort_by(frequencies)))]

\* reading::analyze
reading_analyze(views, cfg) ==
    reading_detected(extract_contour_with_fallback(views, cfg), cfg,
                     voiced_frequencies(extract_contour_with_fallback(views, cfg).contour))

\* range_semitones is held as the ratio ceiling / floor (the source reports
\* 12 * log2 of it)
ScaleAnalysis(floor, ceiling) ==
    [pitch_floor_hz |-> floor, pitch_ceiling_hz |-> ceiling,
     range_hz |-> ceiling - floor,
     range_semitones |-> IF floor > 0 THEN Rat(ceiling, floor) ELSE Zero]

scale_detected(pitch_contour, sorted) ==
    IF sorted = <<>>
    THEN [result |-> [contour |-> pitch_contour, detection_quality |-> "pitch",
                      used_energy_fallback |-> FALSE],
          metrics |-> <<>>, out |-> Err(NoVoicedContent)]
    ELSE [result |-> [contour |-> pitch_contour, detection_quality |-> "pitch",
                      used_energy_fallback |-> FALSE],
          metrics |-> <<>>,
          out |-> Ok(ScaleAnalysis(percentile(sorted, 5), percentile(sorted, 95)))]

\* scale::analyze: the standard tier only
scale_contour(views, cfg) ==
    extract_pitch_contour([i \in 1..Len(views) |-> views[i].std], cfg)

scale_analyze(views, cfg) ==
    scale_detected(scale_contour(views, cfg),
                   sort_by(voiced_frequencies(scale_contour(views, cfg))))

----------------------------------------------------------------------------
(* Exercise analysis: the state machine *)

NoResult == [contour |-> <<>>, detection_quality |-> "", used_energy_fallback |-> FALSE]
NoBuffer == [head |-> <<>>, pad |-> 0]
Idle == <<>>

ExerciseIdle ==
    /\ pc = "idle"
    /\ config = PitchConfigDefault
    /\ buffer = NoBuffer
    /\ silent = FALSE
    /\ result = NoResult
    /\ metrics = Idle
    /\ out = Idle

\* wav::load_samples + pitch_config_for: a buffer and a configuration arrive
Load ==
    /\ pc = "idle"
    /\ \E b \in Buffers, cfg \in Configs :
          /\ buffer' = b
          /\ config' = cfg
          /\ silent' = (b.head = <<>>)
    /\ pc' = "loaded"
    /\ UNCHANGED <<result, metrics, out>>

\* pitch::extract_contour_with_fallback called on the loaded buffer
Detect ==
    /\ pc = "loaded"
    /\ result' = extract_contour_with_fallback(Frames(buffer), config)
    /\ pc' = "detected"
    /\ UNCHANGED <<config, buffer, silent, metrics, out>>

\* sustained::analyze on the loaded buffer; the caller drops the buffer after it
SustainedAnalyze ==
    /\ pc = "loaded"
    /\ \E dsp \in DspOutcomes :
          \E r \in {sustained_analyze(Frames(buffer), config, dsp)} :
             result' = r.result /\ metrics' = r.metrics /\ out' = r.out
    /\ pc' = "sustained"
    /\ buffer' = NoBuffer
    /\ UNCHANGED <<config, silent>>

\* reading::analyze on the loaded buffer
ReadingAnalyze ==
    /\ pc = "loaded"
    /\ \E r \in {reading_analyze(Frames(buffer), config)} :
          result' = r.result /\ metrics' = r.metrics /\ out' = r.out
    /\ pc' = "reading"
    /\ buffer' = NoBuffer
    /\ UNCHANGED <<config, silent>>

\* scale::analyze on the loaded buffer
ScaleAnalyze ==
    /\ pc = "loaded"
    /\ \E r \in {scale_analyze(Frames(buffer), config)} :
          result' = r.result /\ metrics' = r.metrics /\ out' = r.out
    /\ pc' = "scale"
    /\ buffer' = NoBuffer
    /\ UNCHANGED <<config, silent>>

ActivityUnused ==
    /\ a_pc = "unused" /\ a_input = <<>> /\ a_config = <<>> /\ a_result = <<>>
ContourUnused ==
    /\ c_pc = "unused" /\ c_contour = <<>> /\ c_hop = 0 /\ c_out = <<>>
    /\ c_runs = <<>> /\ c_gap = 0
SessionUnused ==
    /\ s_pc = "unused" /\ s_paths = <<>> /\ s_wavs = <<>> /\ s_analysis = <<>>
    /\ s_attempted = {} /\ s_store = <<>>

ReliabilityUnused ==
    /\ r_pc = "unused" /\ r_in = <<>> /\ r_out = <<>>

FramesUnused ==
    /\ f_pc = "unused" /\ f_in = <<>> /\ f_pos = 0
    /\ f_contour = <<>> /\ f_energy = <<>> /\ f_mask = <<>> /\ f_cpps = <<>>

RepeatUnused ==
    /\ p_pc = "unused" /\ p_in = <<>> /\ p_left = <<>> /\ p_first = <<>> /\ p_second = <<>>

CaptureUnused ==
    /\ k_pc = "unused" /\ k_kind = "" /\ k_stop = FALSE /\ k_cb = "idle" /\ k_next = 1
    /\ k_tx = FALSE /\ k_chan = <<>> /\ k_sent = <<>> /\ k_late = FALSE
    /\ k_col = "none" /\ k_all = <<>> /\ k_wav = <<>> /\ k_pitch = <<>>
    /\ k_buffer = <<>> /\ k_seen = <<>>

HysteresisUnused ==
    /\ h_pc = "unused" /\ h_in = <<>> /\ h_i = 0 /\ h_is_active = FALSE /\ h_mask = <<>>

PerturbationUnused ==
    /\ j_pc = "unused" /\ j_contour = <<>> /\ j_tiers = <<>> /\ j_amps = <<>> /\ j_hop = 0 /\ j_out = <<>>

FallbackUnused ==
    /\ e_pc = "unused" /\ e_views = <<>> /\ e_config = <<>> /\ e_result = <<>>

PercentileUnused ==
    /\ q_pc = "unused" /\ q_frequencies = <<>> /\ q_p = 0 /\ q_out = <<>>

PeriodicityUnused ==
    /\ y_pc = "unused" /\ y_contour = <<>> /\ y_active = <<>> /\ y_r = <<>> /\ y_out = <<>>

ScreenUnused ==
    /\ w_pc = "unused" /\ w_screen = "" /\ w_elapsed = 0 /\ w_silent_polls = 0 /\ w_event = <<>> /\ w_streak = 0 /\ w_outcome = <<>>

Init == ExerciseIdle /\ ActivityUnused /\ ContourUnused /\ SessionUnused /\ ReliabilityUnused /\ FramesUnused /\ RepeatUnused /\ CaptureUnused /\ HysteresisUnused /\ PerturbationUnused /\ FallbackUnused /\ PercentileUnused /\ PeriodicityUnused /\ ScreenUnused

Next ==
    \/ Load /\ UNCHANGED notExercise
    \/ Detect /\ UNCHANGED notExercise
    \/ SustainedAnalyze /\ UNCHANGED notExercise
    \/ ReadingAnalyze /\ UNCHANGED notExercise
    \/ ScaleAnalyze /\ UNCHANGED notExercise

Spec == Init /\ [][Next]_vars

----------------------------------------------------------------------------
(* Contour functions: the state machine (specification SpecContour) *)

ExerciseUnused ==
    /\ pc = "unused"
    /\ config = PitchConfigDefault
    /\ buffer = NoBuffer
    /\ silent = FALSE
    /\ result = NoResult
    /\ metrics = Idle
    /\ out = Idle

\* hop sizes (ms): the default, and sizes that put the 50 ms and 250 ms limits
\* within MaxLen frames
Hops == {10, 25, 50, 100, 125}

\* the contour of a voicing pattern
ContourOf(voicing, hop_size_ms) ==
    [i \in 1..Len(voicing) |->
        PitchFrame((i - 1) * hop_size_ms, IF voicing[i] THEN Some(200) ELSE None)]

ContourIdle ==
    /\ c_pc = "idle" /\ c_contour = <<>> /\ c_hop = 10 /\ c_out = 0
    /\ c_runs = <<>> /\ c_gap = 0

\* a caller holds a contour and its hop size
ContourLoad ==
    /\ c_pc = "idle"
    /\ \E voicing \in SeqsUpTo(BOOLEAN, MaxLen), hop \in Hops :
          /\ c_contour' = ContourOf(voicing, hop)
          /\ c_hop' = hop
    /\ c_pc' = "loaded"
    /\ UNCHANGED <<c_out, c_runs, c_gap>>

\* mpt::max_phonation_time_secs(contour, hop, 250.0), as sustained::analyze calls it
Mpt ==
    /\ c_pc = "loaded"
    /\ c_out' = max_phonation_time_secs(c_contour, c_hop, MPT_BRIDGE_MS)
    /\ c_pc' = "mpt"
    /\ UNCHANGED <<c_contour, c_hop, c_runs, c_gap>>

\* voice_breaks::count_voice_breaks(contour, hop, 250.0)
VoiceBreaks ==
    /\ c_pc = "loaded"
    /\ c_out' = count_voice_breaks(c_contour, c_hop, DEFAULT_MAX_BREAK_MS)
    /\ c_pc' = "breaks"
    /\ UNCHANGED <<c_contour, c_hop, c_runs, c_gap>>

\* contour::voiced_runs(contour)
VoicedRuns ==
    /\ c_pc = "loaded"
    /\ c_out' = voiced_runs(c_contour)
    /\ c_pc' = "runs"
    /\ UNCHANGED <<c_contour, c_hop, c_runs, c_gap>>

\* The run list of a marking of frames: 0 is a frame outside every run, 1 a frame
\* that begins a run, 2 a frame that continues the run of the frame before it (or
\* begins one). Every ascending list of non-overlapping runs is the list of a
\* marking; neighbours may touch.
RECURSIVE RunsOf(_, _, _, _)
RunsOf(marks, i, start, runs) ==
    IF i > Len(marks)
    THEN IF is_some(start) THEN Append(runs, <<unwrap(start), Len(marks)>>) ELSE runs
    ELSE IF marks[i] = 0
    THEN RunsOf(marks, i + 1, None,
                IF is_some(start) THEN Append(runs, <<unwrap(start), i - 1>>) ELSE runs)
    ELSE IF marks[i] = 1 \/ ~is_some(start)
    THEN RunsOf(marks, i + 1, Some(i),
                IF is_some(start) THEN Append(runs, <<unwrap(start), i - 1>>) ELSE runs)
    ELSE RunsOf(marks, i + 1, start, runs)

\* a caller holds a run list and a tolerance
RunsLoad ==
    /\ c_pc = "idle"
    /\ \E marks \in SeqsUpTo(0..2, MaxMarks), gap \in 0..MaxGap :
          /\ c_runs' = RunsOf(marks, 1, None, <<>>)
          /\ c_gap' = gap
    /\ c_pc' = "runs_loaded"
    /\ UNCHANGED <<c_contour, c_hop, c_out>>

\* contour::merge_close_runs(runs, max_gap_frames)
MergeCloseRuns ==
    /\ c_pc = "runs_loaded"
    /\ c_out' = merge_close_runs(c_runs, c_gap)
    /\ c_pc' = "merged"
    /\ UNCHANGED <<c_contour, c_hop, c_runs, c_gap>>

InitContour == ExerciseUnused /\ ActivityUnused /\ ContourIdle /\ SessionUnused /\ ReliabilityUnused /\ FramesUnused /\ RepeatUnused /\ CaptureUnused /\ HysteresisUnused /\ PerturbationUnused /\ FallbackUnused /\ PercentileUnused /\ PeriodicityUnused /\ ScreenUnused

NextContour ==
    \/ ContourLoad /\ UNCHANGED notContour
    \/ Mpt /\ UNCHANGED notContour
    \/ VoiceBreaks /\ UNCHANGED notContour
    \/ VoicedRuns /\ UNCHANGED notContour
    \/ RunsLoad /\ UNCHANGED notContour
    \/ MergeCloseRuns /\ UNCHANGED notContour

SpecContour == InitContour /\ [][NextContour]_vars

----------------------------------------------------------------------------
(* Activity detection: the state machine (specification SpecActivity) *)

\* the default configuration, and one with short minimum durations
ActivityConfigs ==
    { ActivityConfigDefault,
      [threshold_on_db |-> -45, threshold_off_db |-> -50,
       min_active_ms |-> 20, min_silent_ms |-> 25, frame_size_ms |-> 10] }

\* frame levels (dB): above the on threshold, between the thresholds, below the
\* off threshold, and an all-zero frame
ActivityLevels == {-40, -48, -60, NEG_INFINITY}

\* The frames of a buffer: head[1], then pad all-zero frames, then the rest of head.
ActivityFrames(b) ==
    LET zeros == [i \in 1..b.pad |-> NEG_INFINITY]
    IN IF b.head = <<>> THEN zeros
       ELSE <<Head(b.head)>> \o zeros \o Tail(b.head)

ActivityIdle ==
    /\ a_pc = "idle" /\ a_input = <<>> /\ a_config = ActivityConfigDefault
    /\ a_result = ActivityResult(<<>>)

\* a caller holds a buffer and a configuration
ActivityLoad ==
    /\ a_pc = "idle"
    /\ \E head \in SeqsUpTo(ActivityLevels, MaxActive), pad \in 0..MaxSilence,
          cfg \in ActivityConfigs :
          /\ a_input' = ActivityFrames([head |-> head, pad |-> pad])
          /\ a_config' = cfg
    /\ a_pc' = "loaded"
    /\ UNCHANGED a_result

\* activity::detect_activity on the buffer
DetectActivity ==
    /\ a_pc = "loaded"
    /\ a_result' = detect_activity(a_input, a_config)
    /\ a_pc' = "detected"
    /\ UNCHANGED <<a_input, a_config>>

InitActivity == ExerciseUnused /\ ActivityIdle /\ ContourUnused /\ SessionUnused /\ ReliabilityUnused /\ FramesUnused /\ RepeatUnused /\ CaptureUnused /\ HysteresisUnused /\ PerturbationUnused /\ FallbackUnused /\ PercentileUnused /\ PeriodicityUnused /\ ScreenUnused

NextActivity ==
    \/ ActivityLoad /\ UNCHANGED notActivity
    \/ DetectActivity /\ UNCHANGED notActivity

SpecActivity == InitActivity /\ [][NextActivity]_vars

----------------------------------------------------------------------------
(* analysis/analyzer.rs: analyze_session (specification SpecSession) *)

Exercises == {"sustained", "scale", "reading"}

\* wav::load_samples failed: "Failed to load <path>"
LoadFailed == "Failed to load"

\* what a recording's file holds: nothing readable, or a buffer
Unreadable == [readable |-> FALSE, buffer |-> NoBuffer]
Readable(b) == [readable |-> TRUE, buffer |-> b]

\* a silent recording, a quiet unpitched one and a voiced one
SessionBuffers ==
    { [head |-> <<>>, pad |-> 3],
      [head |-> <<[std |-> None, rel |-> None, rms_db |-> -45]>>, pad |-> 2],
      [head |-> <<[std |-> Some(200), rel |-> Some(200), rms_db |-> -40]>>, pad |-> 1] }

\* analyze_exercise: load the file, run the analysis, hand its result on
analyze_exercise(wav, analyzed) ==
    IF ~wav.readable THEN Err(LoadFailed) ELSE analyzed

NoAnalysis == [e \in Exercises |-> None]

SessionData(paths, analysis) == [recordings |-> paths, analysis |-> analysis]

SessionIdle ==
    /\ s_pc = "idle"
    /\ s_paths = [e \in Exercises |-> FALSE]
    /\ s_wavs = [e \in Exercises |-> Unreadable]
    /\ s_analysis = NoAnalysis
    /\ s_attempted = {}
    /\ s_store = None

\* analyze_session is entered: paths::latest_attempt_path finds, or not, a
\* recording of each exercise
SessionStart ==
    /\ s_pc = "idle"
    /\ \E paths \in [Exercises -> BOOLEAN] :
       \E wavs \in [Exercises -> {Unreadable} \cup {Readable(b) : b \in SessionBuffers}] :
          /\ \A e \in Exercises : ~paths[e] => wavs[e] = Unreadable
          /\ s_paths' = paths
          /\ s_wavs' = wavs
    /\ s_pc' = "sustained"
    /\ UNCHANGED <<s_analysis, s_attempted, s_store>>

\* one `if let Some(p) = path { Some(analyze_exercise(..)?) } else { None }` of
\* analyze_session: r is the Result of analyze_exercise
SessionStep(e, next, r) ==
    IF ~s_paths[e]
    THEN /\ s_pc' = next
         /\ UNCHANGED <<s_analysis, s_attempted>>
    ELSE /\ s_attempted' = s_attempted \cup {e}
         /\ IF r.ok
            THEN /\ s_analysis' = [s_analysis EXCEPT ![e] = Some(r.value)]
                 /\ s_pc' = next
            ELSE /\ s_pc' = "failed"
                 /\ UNCHANGED s_analysis

StepSustained ==
    /\ s_pc = "sustained"
    /\ \E dsp \in DspOutcomes :
          \E r \in {analyze_exercise(s_wavs["sustained"],
                       sustained_analyze(Frames(s_wavs["sustained"].buffer),
                                         PitchConfigDefault, dsp).out)} :
             SessionStep("sustained", "scale", r)
    /\ UNCHANGED <<s_paths, s_wavs, s_store>>

StepScale ==
    /\ s_pc = "scale"
    /\ \E r \in {analyze_exercise(s_wavs["scale"],
                    scale_analyze(Frames(s_wavs["scale"].buffer), PitchConfigDefault).out)} :
          SessionStep("scale", "reading", r)
    /\ UNCHANGED <<s_paths, s_wavs, s_store>>

StepReading ==
    /\ s_pc = "reading"
    /\ \E r \in {analyze_exercise(s_wavs["reading"],
                    reading_analyze(Frames(s_wavs["reading"].buffer), PitchConfigDefault).out)} :
          SessionStep("reading", "save", r)
    /\ UNCHANGED <<s_paths, s_wavs, s_store>>

\* store::save_session(&session)?, which may fail, then Ok(session)
SaveSession ==
    /\ s_pc = "save"
    /\ \/ /\ s_store' = Some(SessionData(s_paths, s_analysis))
          /\ s_pc' = "done"
       \/ /\ s_pc' = "failed"
          /\ UNCHANGED s_store
    /\ UNCHANGED <<s_paths, s_wavs, s_analysis, s_attempted>>

InitSession == ExerciseUnused /\ ActivityUnused /\ ContourUnused /\ SessionIdle /\ ReliabilityUnused /\ FramesUnused /\ RepeatUnused /\ CaptureUnused /\ HysteresisUnused /\ PerturbationUnused /\ FallbackUnused /\ PercentileUnused /\ PeriodicityUnused /\ ScreenUnused

NextSession ==
    \/ SessionStart /\ UNCHANGED notSession
    \/ StepSustained /\ UNCHANGED notSession
    \/ StepScale /\ UNCHANGED notSession
    \/ StepReading /\ UNCHANGED notSession
    \/ SaveSession /\ UNCHANGED notSession

SpecSession == InitSession /\ [][NextSession]_vars

----------------------------------------------------------------------------
(* storage/session_data.rs: ReliabilityInfo::compute (specification SpecReliability) *)
(* Fractions are rationals <<num, den>>; tier_counts is indexed 1..3 here, 0..2 in the source. *)

\* f > num/den for a fraction f
gt(f, num, den) == f[1] * den > num * f[2]

dominant_tier_last(tier_counts) ==
    IF tier_counts[1] > tier_counts[2] /\ tier_counts[1] > tier_counts[3] THEN 1
    ELSE IF tier_counts[2] > tier_counts[3] THEN 2
    ELSE 3

dominant_tier(tier_counts) ==
    IF tier_counts[1] >= tier_counts[2] /\ tier_counts[1] >= tier_counts[3] THEN 1
    ELSE IF tier_counts[2] >= tier_counts[3] THEN 2
    ELSE 3

\* a quality that is "ok" for a pitch tier whatever the pitched fraction
analysis_quality_tier_only(dominant, pitched_fraction) ==
    IF dominant = 1 /\ gt(pitched_fraction, 1, 2) THEN "good"
    ELSE IF dominant <= 2 THEN "ok"
    ELSE "trend_only"

analysis_quality_half(dominant, pitched_fraction) ==
    IF dominant = 1 /\ ~gt(<<1, 2>>, pitched_fraction[1], pitched_fraction[2]) THEN "good"
    ELSE IF dominant <= 2 /\ gt(pitched_fraction, 3, 10) THEN "ok"
    ELSE "trend_only"

analysis_quality(dominant, pitched_fraction) ==
    IF dominant = 1 /\ gt(pitched_fraction, 1, 2) THEN "good"
    ELSE IF dominant <= 2 /\ gt(pitched_fraction, 3, 10) THEN "ok"
    ELSE "trend_only"

metrics_validity_by_tier(dominant, pitched_fraction, has_cpps) ==
    [jitter |-> dominant <= 2,
     shimmer |-> dominant <= 2,
     hnr |-> dominant <= 2,
     cpps |-> has_cpps,
     voice_breaks |-> IF dominant = 1 THEN "valid"
                      ELSE IF dominant = 2 THEN "trend_only"
                      ELSE "unavailable"]

metrics_validity(dominant, pitched_fraction, has_cpps) ==
    [jitter |-> dominant <= 2 /\ gt(pitched_fraction, 3, 10),
     shimmer |-> dominant <= 2,
     hnr |-> dominant <= 2,
     cpps |-> has_cpps,
     voice_breaks |-> IF dominant = 1 THEN "valid"
                      ELSE IF dominant = 2 THEN "trend_only"
                      ELSE "unavailable"]

ReliabilityInfo(active, pitched_fraction, dominant, quality, validity) ==
    [active_fraction |-> active,
     pitched_fraction |-> pitched_fraction,
     dominant_tier |-> dominant,
     analysis_quality |-> quality,
     metrics_validity |-> validity]

compute(tier_counts, active, pitched_fraction, has_cpps) ==
    ReliabilityInfo(active, pitched_fraction,
                    dominant_tier(tier_counts),
                    analysis_quality(dominant_tier(tier_counts), pitched_fraction),
                    metrics_validity(dominant_tier(tier_counts), pitched_fraction, has_cpps))

\* the inputs: frame counts per tier, fractions in tenths
TierCounts == [1..3 -> 0..MaxCount]
Fractions == {<<n, 10>> : n \in 0..10}
ActiveFractions == {<<0, 10>>, <<8, 10>>}

ReliabilityIdle ==
    /\ r_pc = "idle" /\ r_in = <<>> /\ r_out = <<>>

ReliabilityLoad ==
    /\ r_pc = "idle"
    /\ \E tc \in TierCounts, af \in ActiveFractions, pf \in Fractions, cpps \in BOOLEAN :
          r_in' = [tier_counts |-> tc, active_fraction |-> af,
                   pitched_fraction |-> pf, has_cpps |-> cpps]
    /\ r_pc' = "loaded"
    /\ UNCHANGED r_out

Compute ==
    /\ r_pc = "loaded"
    /\ r_out' = compute(r_in.tier_counts, r_in.active_fraction,
                        r_in.pitched_fraction, r_in.has_cpps)
    /\ r_pc' = "computed"
    /\ UNCHANGED r_in

InitReliability ==
    ExerciseUnused /\ ActivityUnused /\ ContourUnused /\ SessionUnused /\ ReliabilityIdle /\ FramesUnused /\ RepeatUnused /\ CaptureUnused /\ HysteresisUnused /\ PerturbationUnused /\ FallbackUnused /\ PercentileUnused /\ PeriodicityUnused /\ ScreenUnused

NextReliability ==
    \/ ReliabilityLoad /\ UNCHANGED notReliability
    \/ Compute /\ UNCHANGED notReliability

SpecReliability == InitReliability /\ [][NextReliability]_vars


----------------------------------------------------------------------------
(* The frame loops at sample level (specification SpecFrames)                   *)
(* dsp/pitch.rs extract_pitch_contour and energy_based_contour, dsp/activity.rs *)
(* detect_activity, dsp/cpps.rs compute_cpps, run one after the other over one  *)
(* buffer as analysis/sustained.rs does. The buffer is its length and what it   *)
(* holds: silence, or a steady 400 Hz tone at -20 dB that the detector finds in *)
(* every window. Positions are sample offsets; a frame's time is the rational   *)
(* <<pos, sample_rate>> seconds. Durations are whole milliseconds.              *)

\* `(ms / 1000.0 * sr) as usize`: the cast truncates, and saturates at 0
ms_to_samples(ms, sample_rate) == IF ms <= 0 THEN 0 ELSE (ms * sample_rate) \div 1000

RECURSIVE pow2_from(_, _)
pow2_from(p, n) == IF p >= n THEN p ELSE pow2_from(2 * p, n)
next_power_of_two(n) == pow2_from(1, n)

frame_size(cfg, sample_rate) == ms_to_samples(cfg.frame_size_ms, sample_rate)
hop_size(cfg, sample_rate) == ms_to_samples(cfg.hop_size_ms, sample_rate)
min_buffer(cfg, sample_rate) == ceil_div(2 * sample_rate, cfg.pitch_floor_hz)

detector_size(cfg, sample_rate) ==
    IF next_power_of_two(min_buffer(cfg, sample_rate)) >= frame_size(cfg, sample_rate)
    THEN next_power_of_two(min_buffer(cfg, sample_rate))
    ELSE frame_size(cfg, sample_rate)

energy_detector_size_frame(cfg, sample_rate) == frame_size(cfg, sample_rate)

\* energy_based_contour computes the same window as extract_pitch_contour
energy_detector_size(cfg, sample_rate) ==
    IF next_power_of_two(min_buffer(cfg, sample_rate)) >= frame_size(cfg, sample_rate)
    THEN next_power_of_two(min_buffer(cfg, sample_rate))
    ELSE frame_size(cfg, sample_rate)

\* what the detector returns for a window of the buffer, and a frame's level (dB)
get_pitch(content) == IF content = "silence" THEN None ELSE Some(400)
frame_rms_db(content) == IF content = "silence" THEN NEG_INFINITY ELSE -20

CppsConfigDefault ==
    [frame_size_ms |-> 40, hop_size_ms |-> 10,
     quefrency_min_tenth_ms |-> 25, quefrency_max_tenth_ms |-> 167,
     energy_gate_db |-> -45]

\* the quefrency range in samples, and whether compute_cpps returns before its loop
cpps_fft_size(sample_rate) == next_power_of_two(frame_size(CppsConfigDefault, sample_rate))
cpps_q_min(sample_rate) == (CppsConfigDefault.quefrency_min_tenth_ms * sample_rate) \div 10000
cpps_q_max(sample_rate) ==
    IF ceil_div(CppsConfigDefault.quefrency_max_tenth_ms * sample_rate, 10000)
          <= cpps_fft_size(sample_rate) \div 2
    THEN ceil_div(CppsConfigDefault.quefrency_max_tenth_ms * sample_rate, 10000)
    ELSE cpps_fft_size(sample_rate) \div 2
cpps_returns_early(n, sample_rate) ==
    \/ frame_size(CppsConfigDefault, sample_rate) = 0
    \/ n < frame_size(CppsConfigDefault, sample_rate)
    \/ cpps_q_min(sample_rate) >= cpps_q_max(sample_rate)
    \/ cpps_q_max(sample_rate) >= cpps_fft_size(sample_rate) \div 2

\* the inputs
SampleRates == {1000, 2000}
FrameConfigs ==
    [pitch_floor_hz : {300, 500}, pitch_ceiling_hz : {1000},
     frame_size_ms : {3, 10}, hop_size_ms : {0, 2, 5}]
ActivityFrameMs == {0, 2, 5}
Contents == {"silence", "tone"}

FramesIdle ==
    /\ f_pc = "idle" /\ f_in = <<>> /\ f_pos = 0
    /\ f_contour = <<>> /\ f_energy = <<>> /\ f_mask = <<>> /\ f_cpps = <<>>

FramesLoad ==
    /\ f_pc = "idle"
    /\ \E n \in 0..MaxSamples, sr \in SampleRates, cfg \in FrameConfigs,
          ms \in ActivityFrameMs, content \in Contents :
          f_in' = [len |-> n, sample_rate |-> sr, config |-> cfg,
                   activity_frame_size_ms |-> ms, content |-> content]
    /\ f_pc' = "pitch"
    /\ UNCHANGED <<f_pos, f_contour, f_energy, f_mask, f_cpps>>

\* one iteration of the loop of extract_pitch_contour
PitchStep ==
    /\ f_pc = "pitch"
    /\ f_pos + detector_size(f_in.config, f_in.sample_rate) <= f_in.len
    /\ hop_size(f_in.config, f_in.sample_rate) > 0 \/ Len(f_contour) < MaxSpin
    /\ f_contour' = Append(f_contour,
          PitchFrame(<<f_pos, f_in.sample_rate>>,
                     IF get_pitch(f_in.content) # None
                        /\ in_range(get_pitch(f_in.content)[1], f_in.config)
                     THEN get_pitch(f_in.content) ELSE None))
    /\ f_pos' = f_pos + hop_size(f_in.config, f_in.sample_rate)
    /\ UNCHANGED <<f_pc, f_in, f_energy, f_mask, f_cpps>>

PitchEnd ==
    /\ f_pc = "pitch"
    /\ ~(f_pos + detector_size(f_in.config, f_in.sample_rate) <= f_in.len)
    /\ f_pc' = "energy"
    /\ f_pos' = 0
    /\ UNCHANGED <<f_in, f_contour, f_energy, f_mask, f_cpps>>

\* one iteration of the loop of energy_based_contour
EnergyStep ==
    /\ f_pc = "energy"
    /\ f_pos + energy_detector_size(f_in.config, f_in.sample_rate) <= f_in.len
    /\ hop_size(f_in.config, f_in.sample_rate) > 0 \/ Len(f_energy) < MaxSpin
    /\ f_energy' = Append(f_energy,
          PitchFrame(<<f_pos, f_in.sample_rate>>,
                     IF frame_rms_db(f_in.content) > ENERGY_THRESHOLD_DB
                     THEN Some(DEFAULT_F0) ELSE None))
    /\ f_pos' = f_pos + hop_size(f_in.config, f_in.sample_rate)
    /\ UNCHANGED <<f_pc, f_in, f_contour, f_mask, f_cpps>>

EnergyEnd ==
    /\ f_pc = "energy"
    /\ ~(f_pos + energy_detector_size(f_in.config, f_in.sample_rate) <= f_in.len)
    /\ f_pc' = "activity"
    /\ f_pos' = 0
    /\ UNCHANGED <<f_in, f_contour, f_energy, f_mask, f_cpps>>

\* one iteration of the RMS loop of detect_activity; f_mask holds, per frame of
\* the mask, the offset of its first sample and its level
ActivityStep ==
    /\ f_pc = "activity"
    /\ ms_to_samples(f_in.activity_frame_size_ms, f_in.sample_rate) # 0
    /\ f_pos + ms_to_samples(f_in.activity_frame_size_ms, f_in.sample_rate) <= f_in.len
    /\ f_mask' = Append(f_mask, [offset |-> f_pos, db |-> frame_rms_db(f_in.content)])
    /\ f_pos' = f_pos + ms_to_samples(f_in.activity_frame_size_ms, f_in.sample_rate)
    /\ UNCHANGED <<f_pc, f_in, f_contour, f_energy, f_cpps>>

ActivityEnd ==
    /\ f_pc = "activity"
    /\ \/ ms_to_samples(f_in.activity_frame_size_ms, f_in.sample_rate) = 0
       \/ ~(f_pos + ms_to_samples(f_in.activity_frame_size_ms, f_in.sample_rate) <= f_in.len)
    /\ f_pc' = "cpps"
    /\ f_pos' = 0
    /\ UNCHANGED <<f_in, f_contour, f_energy, f_mask, f_cpps>>

\* one iteration of the loop of compute_cpps; f_cpps holds the offsets of the
\* frames that pass the energy gate
CppsStep ==
    /\ f_pc = "cpps"
    /\ ~cpps_returns_early(f_in.len, f_in.sample_rate)
    /\ f_pos + frame_size(CppsConfigDefault, f_in.sample_rate) <= f_in.len
    /\ hop_size(CppsConfigDefault, f_in.sample_rate) > 0 \/ Len(f_cpps) < MaxSpin
    /\ f_cpps' = IF frame_rms_db(f_in.content) < CppsConfigDefault.energy_gate_db
                 THEN f_cpps ELSE Append(f_cpps, f_pos)
    /\ f_pos' = f_pos + hop_size(CppsConfigDefault, f_in.sample_rate)
    /\ UNCHANGED <<f_pc, f_in, f_contour, f_energy, f_mask>>

CppsEnd ==
    /\ f_pc = "cpps"
    /\ \/ cpps_returns_early(f_in.len, f_in.sample_rate)
       \/ ~(f_pos + frame_size(CppsConfigDefault, f_in.sample_rate) <= f_in.len)
    /\ f_pc' = "done"
    /\ UNCHANGED <<f_in, f_pos, f_contour, f_energy, f_mask, f_cpps>>

InitFrames ==
    ExerciseUnused /\ ActivityUnused /\ ContourUnused /\ SessionUnused /\ RepeatUnused /\ CaptureUnused /\ HysteresisUnused /\ PerturbationUnused /\ FallbackUnused /\ PercentileUnused /\ PeriodicityUnused /\ ScreenUnused
    /\ ReliabilityUnused /\ FramesIdle

NextFrames ==
    \/ FramesLoad /\ UNCHANGED notFrames
    \/ PitchStep /\ UNCHANGED notFrames
    \/ PitchEnd /\ UNCHANGED notFrames
    \/ EnergyStep /\ UNCHANGED notFrames
    \/ EnergyEnd /\ UNCHANGED notFrames
    \/ ActivityStep /\ UNCHANGED notFrames
    \/ ActivityEnd /\ UNCHANGED notFrames
    \/ CppsStep /\ UNCHANGED notFrames
    \/ CppsEnd /\ UNCHANGED notFrames

SpecFrames == InitFrames /\ [][NextFrames]_vars


----------------------------------------------------------------------------
(* Repeated analysis of one buffer (specification SpecRepeat)                  *)
(* An exercise analysis is invoked on a buffer, then possibly on another       *)
(* buffer, then on the first buffer again. p_left is what the latest           *)
(* invocation left behind: the contour it built. What the sample arithmetic    *)
(* yields (dsp) belongs to the buffer: the arithmetic is sequential f32 code.  *)

\* a contour that goes on from what the previous invocation left
vec_kept(left) == left

\* `let mut contour = Vec::new()`: every invocation starts its contour empty
vec_new(left) == <<>>

\* one invocation of the analysis of an exercise
invoke(exercise, views, cfg, dsp, left) ==
    LET r == CASE exercise = "sustained" -> sustained_analyze(views, cfg, dsp)
               [] exercise = "reading" -> reading_analyze(views, cfg)
               [] exercise = "scale" -> scale_analyze(views, cfg)
    IN [result |-> [r.result EXCEPT !.contour = vec_new(left) \o @],
        metrics |-> r.metrics,
        out |-> r.out]

RepeatBuffers == [head : SeqsUpTo(FrameViews, MaxRepeatFrames), pad : {0, 3}]
RepeatDsp == {d \in DspOutcomes : d.shimmer = d.hnr /\ d.hnr = d.cpps /\ d.cpps = d.periodicity}
\* the buffers of the analysis in between: silence, and one voiced frame
OtherBuffers ==
    { [head |-> <<>>, pad |-> 2],
      [head |-> <<[std |-> Some(200), rel |-> Some(200), rms_db |-> -40]>>, pad |-> 0] }

RepeatIdle ==
    /\ p_pc = "idle" /\ p_in = <<>> /\ p_left = <<>> /\ p_first = <<>> /\ p_second = <<>>

RepeatLoad ==
    /\ p_pc = "idle"
    /\ \E exercise \in Exercises, b \in RepeatBuffers, cfg \in Configs, dsp \in RepeatDsp :
          p_in' = [exercise |-> exercise, buffer |-> b, config |-> cfg, dsp |-> dsp]
    /\ p_pc' = "loaded"
    /\ UNCHANGED <<p_left, p_first, p_second>>

RepeatFirst ==
    /\ p_pc = "loaded"
    /\ \E r \in {invoke(p_in.exercise, Frames(p_in.buffer), p_in.config, p_in.dsp, p_left)} :
          p_first' = r /\ p_left' = r.result.contour
    /\ p_pc' = "first"
    /\ UNCHANGED <<p_in, p_second>>

\* an analysis of another buffer between the two
RepeatOther ==
    /\ p_pc = "first"
    /\ \E exercise \in Exercises, b \in OtherBuffers :
          \E r \in {invoke(exercise, Frames(b), p_in.config, p_in.dsp, p_left)} :
             p_left' = r.result.contour
    /\ p_pc' = "other"
    /\ UNCHANGED <<p_in, p_first, p_second>>

RepeatSecond ==
    /\ p_pc \in {"first", "other"}
    /\ \E r \in {invoke(p_in.exercise, Frames(p_in.buffer), p_in.config, p_in.dsp, p_left)} :
          p_second' = r /\ p_left' = r.result.contour
    /\ p_pc' = "second"
    /\ UNCHANGED <<p_in, p_first>>

InitRepeat ==
    ExerciseUnused /\ ActivityUnused /\ ContourUnused /\ SessionUnused /\ CaptureUnused /\ HysteresisUnused /\ PerturbationUnused /\ FallbackUnused /\ PercentileUnused /\ PeriodicityUnused /\ ScreenUnused
    /\ ReliabilityUnused /\ FramesUnused /\ RepeatIdle

NextRepeat ==
    \/ RepeatLoad /\ UNCHANGED notRepeat
    \/ RepeatFirst /\ UNCHANGED notRepeat
    \/ RepeatOther /\ UNCHANGED notRepeat
    \/ RepeatSecond /\ UNCHANGED notRepeat

SpecRepeat == InitRepeat /\ [][NextRepeat]_vars


----------------------------------------------------------------------------
(* audio/recorder.rs record_to_file, audio/exercise.rs                         *)
(* record_with_live_feedback, audio/capture.rs start_capture with its caller   *)
(* (specification SpecCapture)                                                 *)
(* Three threads: the main thread, the audio callback that cpal invokes while  *)
(* the stream's closure exists, and the collector (writer) thread. A sample is *)
(* its amplitude in thousandths; the device delivers chunk n as Chunk(n).      *)
(* The callback is two steps, the load of the stop flag and the send, so the   *)
(* main thread can set the flag between them. Dropping the stream is two       *)
(* steps as well: the main thread goes on, and the closure with its sender is  *)
(* destroyed once no callback is running.                                      *)

Chunk(n) == <<400 * n, -600 * n>>

\* `(sample * i16::MAX as f32).clamp(i16::MIN as f32, i16::MAX as f32) as i16`
to_i16(sample) ==
    LET scaled == IF sample >= 0 THEN (sample * 32767) \div 1000
                  ELSE -(((-sample) * 32767) \div 1000)
    IN IF scaled < -32768 THEN -32768 ELSE IF scaled > 32767 THEN 32767 ELSE scaled

\* a loop over the receiver that ends as soon as every sender is gone
iter_ended_on_disconnect(chan, tx) == ~tx

\* `for chunk in rx.iter()` ends when every sender is gone and the queue is empty
iter_ended(chan, tx) == ~tx /\ chan = <<>>

CaptureKinds == {"record_to_file", "record_with_live_feedback", "start_capture"}

CaptureIdle ==
    /\ k_pc = "idle" /\ k_kind = "" /\ k_stop = FALSE /\ k_cb = "idle" /\ k_next = 1
    /\ k_tx = FALSE /\ k_chan = <<>> /\ k_sent = <<>> /\ k_late = FALSE
    /\ k_col = "none" /\ k_all = <<>> /\ k_wav = <<>> /\ k_pitch = <<>>
    /\ k_buffer = <<>> /\ k_seen = <<>>

\* the channel, the stop flag, the stream and the collector thread are created
CaptureStart ==
    /\ k_pc = "idle"
    /\ \E kind \in CaptureKinds : k_kind' = kind
    /\ k_tx' = TRUE
    /\ k_col' = "running"
    /\ k_pc' = "recording"
    /\ UNCHANGED <<k_stop, k_cb, k_next, k_chan, k_sent, k_late, k_all, k_wav,
                   k_pitch, k_buffer, k_seen>>

\* the callback is invoked with chunk k_next and loads the stop flag
CallbackLoadStop ==
    /\ k_tx /\ k_cb = "idle" /\ k_next <= MaxChunks
    /\ IF k_stop
       THEN k_cb' = "idle" /\ k_next' = k_next + 1
       ELSE k_cb' = "sending" /\ k_next' = k_next
    /\ UNCHANGED <<k_pc, k_kind, k_stop, k_tx, k_chan, k_sent, k_late, k_col, k_all,
                   k_wav, k_pitch, k_buffer, k_seen>>

\* `let _ = tx.send(mono)`: the send fails, unnoticed, when the receiver is gone
CallbackSend ==
    /\ k_cb = "sending"
    /\ IF k_col = "running"
       THEN k_chan' = Append(k_chan, Chunk(k_next)) /\ k_sent' = k_sent \o Chunk(k_next)
       ELSE UNCHANGED <<k_chan, k_sent>>
    /\ k_late' = (k_late \/ k_stop)
    /\ k_cb' = "idle"
    /\ k_next' = k_next + 1
    /\ UNCHANGED <<k_pc, k_kind, k_stop, k_tx, k_col, k_all, k_wav, k_pitch,
                   k_buffer, k_seen>>

\* the closure of the dropped stream, and the sender in it, are destroyed
ClosureDropped ==
    /\ k_pc \in {"dropped", "handed", "failed", "analysed"}
    /\ k_tx /\ k_cb = "idle"
    /\ k_tx' = FALSE
    /\ UNCHANGED <<k_pc, k_kind, k_stop, k_cb, k_next, k_chan, k_sent, k_late, k_col,
                   k_all, k_wav, k_pitch, k_buffer, k_seen>>

\* one iteration of the collector's loop; the writer also writes the samples
\* to the WAV file, start_capture(true) forwards a copy to the pitch thread
CollectorRecv ==
    /\ k_col = "running" /\ k_chan # <<>>
    /\ k_all' = k_all \o Head(k_chan)
    /\ k_wav' = IF k_kind = "record_to_file"
                THEN k_wav \o [i \in 1..Len(Head(k_chan)) |-> to_i16(Head(k_chan)[i])]
                ELSE k_wav
    /\ k_pitch' = IF k_kind = "start_capture" THEN Append(k_pitch, Head(k_chan))
                  ELSE k_pitch
    /\ k_chan' = Tail(k_chan)
    /\ UNCHANGED <<k_pc, k_kind, k_stop, k_cb, k_next, k_tx, k_sent, k_late, k_col,
                   k_buffer, k_seen>>

\* the loop ends, the writer finalizes the file, the thread returns all_samples
CollectorEnd ==
    /\ k_col = "running"
    /\ iter_ended(k_chan, k_tx)
    /\ k_col' = "done"
    /\ UNCHANGED <<k_pc, k_kind, k_stop, k_cb, k_next, k_tx, k_chan, k_sent, k_late,
                   k_all, k_wav, k_pitch, k_buffer, k_seen>>

\* creating the file or writing a sample fails: the writer thread returns Err
\* and its receiver is dropped
WriterFail ==
    /\ k_col = "running" /\ k_kind = "record_to_file"
    /\ k_col' = "error"
    /\ k_chan' = <<>>
    /\ UNCHANGED <<k_pc, k_kind, k_stop, k_cb, k_next, k_tx, k_sent, k_late, k_all,
                   k_wav, k_pitch, k_buffer, k_seen>>

\* the pitch thread takes a forwarded chunk
PitchRecv ==
    /\ k_pitch # <<>>
    /\ k_pitch' = Tail(k_pitch)
    /\ UNCHANGED <<k_pc, k_kind, k_stop, k_cb, k_next, k_tx, k_chan, k_sent, k_late,
                   k_col, k_all, k_wav, k_buffer, k_seen>>

\* `stop.store(true, Ordering::Relaxed)`
MainStop ==
    /\ k_pc = "recording"
    /\ k_stop' = TRUE
    /\ k_pc' = "stopping"
    /\ UNCHANGED <<k_kind, k_cb, k_next, k_tx, k_chan, k_sent, k_late, k_col, k_all,
                   k_wav, k_pitch, k_buffer, k_seen>>

\* `drop(stream)`
MainDropStream ==
    /\ k_pc = "stopping"
    /\ k_pc' = "dropped"
    /\ UNCHANGED <<k_kind, k_stop, k_cb, k_next, k_tx, k_chan, k_sent, k_late, k_col,
                   k_all, k_wav, k_pitch, k_buffer, k_seen>>

\* `collector_handle.join()`: returns once the thread has ended, with its buffer
\* or, from the writer, its error
MainJoin ==
    /\ k_pc = "dropped"
    /\ k_col \in {"done", "error"}
    /\ IF k_col = "done"
       THEN k_buffer' = k_all /\ k_pc' = "handed"
       ELSE k_buffer' = k_buffer /\ k_pc' = "failed"
    /\ UNCHANGED <<k_kind, k_stop, k_cb, k_next, k_tx, k_chan, k_sent, k_late, k_col,
                   k_all, k_wav, k_pitch, k_seen>>

\* the caller passes the buffer on; the caller of start_capture first cuts the
\* trailing silence off it (`truncate` to len.saturating_sub(trailing_samples))
AnalysisRead ==
    /\ k_pc = "handed"
    /\ \E trailing_samples \in
             (IF k_kind = "start_capture" THEN 0..(Len(k_buffer) + 1) ELSE {0}) :
          k_seen' = SubSeq(k_buffer, 1, saturating_sub(Len(k_buffer), trailing_samples))
    /\ k_pc' = "analysed"
    /\ UNCHANGED <<k_kind, k_stop, k_cb, k_next, k_tx, k_chan, k_sent, k_late, k_col,
                   k_all, k_wav, k_pitch, k_buffer>>

InitCapture ==
    ExerciseUnused /\ ActivityUnused /\ ContourUnused /\ SessionUnused /\ HysteresisUnused /\ PerturbationUnused /\ FallbackUnused /\ PercentileUnused /\ PeriodicityUnused /\ ScreenUnused
    /\ ReliabilityUnused /\ FramesUnused /\ RepeatUnused /\ CaptureIdle

NextCapture ==
    \/ CaptureStart /\ UNCHANGED notCapture
    \/ CallbackLoadStop /\ UNCHANGED notCapture
    \/ CallbackSend /\ UNCHANGED notCapture
    \/ ClosureDropped /\ UNCHANGED notCapture
    \/ CollectorRecv /\ UNCHANGED notCapture
    \/ CollectorEnd /\ UNCHANGED notCapture
    \/ WriterFail /\ UNCHANGED notCapture
    \/ PitchRecv /\ UNCHANGED notCapture
    \/ MainStop /\ UNCHANGED notCapture
    \/ MainDropStream /\ UNCHANGED notCapture
    \/ MainJoin /\ UNCHANGED notCapture
    \/ AnalysisRead /\ UNCHANGED notCapture

SpecCapture == InitCapture /\ [][NextCapture]_vars


----------------------------------------------------------------------------
(* dsp/activity.rs: the hysteresis loop of detect_activity, one frame per step *)
(* (specification SpecHysteresis)                                              *)

\* a detector with one threshold: active exactly on a frame at or above it
single_threshold_step(is_active, db, cfg) == db >= cfg.threshold_on_db

\* the body of `for &db in &rms_db_values`: the state after the frame
hysteresis_step(is_active, db, cfg) ==
    IF is_active
    THEN (IF db < cfg.threshold_off_db THEN FALSE ELSE is_active)
    ELSE (IF db >= cfg.threshold_on_db THEN TRUE ELSE is_active)

\* frame levels (dB): above, at and below each threshold of the default
\* configuration, and an all-zero frame
HysteresisLevels == {-40, -45, -48, -50, -60, NEG_INFINITY}

HysteresisIdle ==
    /\ h_pc = "idle" /\ h_in = <<>> /\ h_i = 0 /\ h_is_active = FALSE /\ h_mask = <<>>

\* rms_db_values are computed; `let mut is_active = false`
HysteresisLoad ==
    /\ h_pc = "idle"
    /\ \E values \in SeqsUpTo(HysteresisLevels, MaxLevels) \ {<<>>},
          cfg \in ActivityConfigs :
          h_in' = [rms_db_values |-> values, config |-> cfg]
    /\ h_i' = 1
    /\ h_is_active' = FALSE
    /\ h_mask' = <<>>
    /\ h_pc' = "loop"

HysteresisStep ==
    /\ h_pc = "loop"
    /\ h_i <= Len(h_in.rms_db_values)
    /\ h_is_active' = hysteresis_step(h_is_active, h_in.rms_db_values[h_i], h_in.config)
    /\ h_mask' = Append(h_mask, h_is_active')
    /\ h_i' = h_i + 1
    /\ UNCHANGED <<h_pc, h_in>>

HysteresisEnd ==
    /\ h_pc = "loop"
    /\ h_i > Len(h_in.rms_db_values)
    /\ h_pc' = "done"
    /\ UNCHANGED <<h_in, h_i, h_is_active, h_mask>>

InitHysteresis ==
    ExerciseUnused /\ ActivityUnused /\ ContourUnused /\ SessionUnused /\ PerturbationUnused /\ FallbackUnused /\ PercentileUnused /\ PeriodicityUnused /\ ScreenUnused
    /\ ReliabilityUnused /\ FramesUnused /\ RepeatUnused /\ CaptureUnused
    /\ HysteresisIdle

NextHysteresis ==
    \/ HysteresisLoad /\ UNCHANGED notHysteresis
    \/ HysteresisStep /\ UNCHANGED notHysteresis
    \/ HysteresisEnd /\ UNCHANGED notHysteresis

SpecHysteresis == InitHysteresis /\ [][NextHysteresis]_vars


----------------------------------------------------------------------------
(* Jitter and shimmer of one contour (specification SpecPerturbation)         *)
(* dsp/jitter.rs, dsp/shimmer.rs, and their caller in analysis/sustained.rs.  *)
(* A contour is up to three segments, the middle one short; a segment is a    *)
(* run of frames of one kind. amps[i] is the peak amplitude the shimmer loop  *)
(* reads in the window of frame i, None when the window starts beyond the     *)
(* sample buffer.                                                             *)

\* the longest run of frames of one kind
MaxRun == 15

RunLens == {1, 2, MaxRun - 1, MaxRun}
SegKinds == {"std_alt", "relaxed_alt", "fallback_alt", "std_flat", "unvoiced"}
PerturbationHops == {50, 100}

seg_frame(kind, k) ==
    [frequency |-> IF kind = "unvoiced" THEN None
                   ELSE IF kind = "std_flat" \/ k % 2 = 1 THEN Some(100) ELSE Some(110),
     tier      |-> IF kind = "relaxed_alt" THEN 2
                   ELSE IF kind = "fallback_alt" THEN 3 ELSE 1,
     amp       |-> IF kind = "fallback_alt" THEN (IF k % 2 = 1 THEN 9 ELSE 1)
                   ELSE IF kind = "std_flat" \/ k % 2 = 1 THEN 4 ELSE 5]

Segments == {<<>>} \cup {[k \in 1..n |-> seg_frame(kind, k)] : kind \in SegKinds, n \in RunLens}

\* shimmer.rs: one pass of the shimmer loops. keep[i]: frame i is a voiced frame
\* the estimator uses; a kept frame whose window is empty ends the chain.
RECURSIVE shimmer_scan(_, _, _, _)
shimmer_scan(amps, keep, i, st) ==
    IF i > Len(amps) THEN st
    ELSE IF keep[i] /\ is_some(amps[i])
    THEN LET amp == Rat(unwrap(amps[i]), 1)
             consecutive == st.consecutive + 1
         IN shimmer_scan(amps, keep, i + 1,
                [amplitudes |-> Append(st.amplitudes, amp),
                 perturbations |-> IF is_some(st.prev_amp)
                                   THEN Append(st.perturbations,
                                               RAbsDiff(amp, unwrap(st.prev_amp)))
                                   ELSE st.perturbations,
                 prev_amp |-> Some(amp),
                 total_gated_frames |-> st.total_gated_frames + 1,
                 consecutive |-> consecutive,
                 max_consecutive |-> IF consecutive > st.max_consecutive
                                     THEN consecutive ELSE st.max_consecutive])
    ELSE shimmer_scan(amps, keep, i + 1,
                [st EXCEPT !.prev_amp = None, !.consecutive = 0])

ShimmerStart == [amplitudes |-> <<>>, perturbations |-> <<>>, prev_amp |-> None,
                 total_gated_frames |-> 0, consecutive |-> 0, max_consecutive |-> 0]

\* local_shimmer_percent on the peak amplitudes of the frames' windows
shimmer_percent_of(amps, contour) ==
    LET st == shimmer_scan(amps,
                           [i \in 1..Len(contour) |-> is_some(contour[i].frequency)],
                           1, ShimmerStart)
    IN perturbation_percent(st.perturbations, st.amplitudes)

\* a gated shimmer that lets frames of every tier through
shimmer_percent_gated_any_tier(amps, contour, tiers, hop_size_ms) ==
    IF Len(contour) # Len(tiers) THEN None
    ELSE LET st == shimmer_scan(amps,
                        [i \in 1..Len(contour) |-> is_some(contour[i].frequency)],
                        1, ShimmerStart)
         IN IF st.max_consecutive < MIN_GATED_FRAMES THEN None
            ELSE IF st.total_gated_frames * hop_size_ms < MIN_GATED_DURATION_MS THEN None
            ELSE perturbation_percent(st.perturbations, st.amplitudes)

\* local_shimmer_percent_gated on the peak amplitudes of the frames' windows
shimmer_percent_gated_of(amps, contour, tiers, hop_size_ms) ==
    IF Len(contour) # Len(tiers) THEN None
    ELSE LET st == shimmer_scan(amps,
                        [i \in 1..Len(contour) |->
                            is_some(contour[i].frequency) /\ tiers[i] <= 2],
                        1, ShimmerStart)
         IN IF st.max_consecutive < MIN_GATED_FRAMES THEN None
            ELSE IF st.total_gated_frames * hop_size_ms < MIN_GATED_DURATION_MS THEN None
            ELSE perturbation_percent(st.perturbations, st.amplitudes)

PerturbationIdle ==
    /\ j_pc = "idle" /\ j_contour = <<>> /\ j_tiers = <<>> /\ j_amps = <<>>
    /\ j_hop = 0 /\ j_out = <<>>

\* a recording's contour, its frame tiers and the amplitudes of its windows
PerturbationLoad ==
    /\ j_pc = "idle"
    /\ \E s1 \in Segments, s2 \in {s \in Segments : Len(s) <= 2}, s3 \in Segments,
          hop \in PerturbationHops, short \in 0..1 :
          \E fr \in {s1 \o s2 \o s3} :
            /\ Len(fr) >= short
            /\ j_contour' = [i \in 1..Len(fr) |-> PitchFrame((i - 1) * hop, fr[i].frequency)]
            /\ j_tiers' = [i \in 1..Len(fr) |-> fr[i].tier]
            /\ j_amps' = [i \in 1..Len(fr) |->
                            IF i > Len(fr) - short THEN None ELSE Some(fr[i].amp)]
            /\ j_hop' = hop
    /\ j_pc' = "loaded"
    /\ UNCHANGED j_out

\* sustained.rs: the gated estimators, the ungated ones, and the value the
\* analysis of a recording keeps (the recording did not use the energy fallback)
Measure ==
    /\ j_pc = "loaded"
    /\ \E jg \in {local_jitter_percent_gated(j_contour, j_tiers, j_hop)},
          ju \in {local_jitter_percent(j_contour)},
          sg \in {shimmer_percent_gated_of(j_amps, j_contour, j_tiers, j_hop)},
          su \in {shimmer_percent_of(j_amps, j_contour)} :
          j_out' = [jitter |-> ju, jitter_gated |-> jg,
                    shimmer |-> su, shimmer_gated |-> sg,
                    jitter_percent |-> unwrap_or(or_else(jg, ju), Zero),
                    shimmer_percent |-> unwrap_or(or_else(sg, su), Zero)]
    /\ j_pc' = "measured"
    /\ UNCHANGED <<j_contour, j_tiers, j_amps, j_hop>>

PerturbationReset ==
    /\ j_pc = "measured"
    /\ j_pc' = "idle" /\ j_contour' = <<>> /\ j_tiers' = <<>> /\ j_amps' = <<>>
    /\ j_hop' = 0 /\ j_out' = <<>>

InitPerturbation ==
    ExerciseUnused /\ ActivityUnused /\ ContourUnused /\ SessionUnused /\ FallbackUnused /\ PercentileUnused /\ PeriodicityUnused /\ ScreenUnused
    /\ ReliabilityUnused /\ FramesUnused /\ RepeatUnused /\ CaptureUnused
    /\ HysteresisUnused /\ PerturbationIdle

NextPerturbation ==
    \/ PerturbationLoad /\ UNCHANGED notPerturbation
    \/ Measure /\ UNCHANGED notPerturbation
    \/ PerturbationReset /\ UNCHANGED notPerturbation

SpecPerturbation == InitPerturbation /\ [][NextPerturbation]_vars


----------------------------------------------------------------------------
(* Tiered pitch extraction with several frequencies (specification            *)
(* SpecFallback): dsp/pitch.rs extract_contour_with_fallback on a buffer of   *)
(* periodic frames, aperiodic frames and silent frames.                       *)

\* periodic frames, aperiodic frames and the longest silence of a buffer
MaxPeriodic == 3
MaxNoisy == 2
MaxFallbackPad == 38

FallbackFreqs == {90, 120, 200}
FallbackPads == {0, MaxFallbackPad - 30, MaxFallbackPad - 20, MaxFallbackPad - 10,
                 MaxFallbackPad}

\* the views of a buffer: frames the relaxed detector answers on (the standard
\* detector too when clear), frames it does not, then all-zero frames
FallbackViews(freqs, clear, level, noisy, pad) ==
    [i \in 1..Len(freqs) |->
        [std |-> IF clear THEN Some(freqs[i]) ELSE None, rel |-> Some(freqs[i]),
         rms_db |-> level]]
    \o [i \in 1..Len(noisy) |-> [std |-> None, rel |-> None, rms_db |-> noisy[i]]]
    \o [i \in 1..pad |-> ZeroView]

FallbackIdle == e_pc = "idle" /\ e_views = <<>> /\ e_config = <<>> /\ e_result = <<>>

FallbackLoad ==
    /\ e_pc = "idle"
    /\ \E freqs \in SeqsUpTo(FallbackFreqs, MaxPeriodic), clear \in BOOLEAN,
          level \in {-50, -40}, noisy \in SeqsUpTo(Levels, MaxNoisy),
          pad \in FallbackPads :
          e_views' = FallbackViews(freqs, clear, level, noisy, pad)
    /\ \E cfg \in Configs : e_config' = cfg
    /\ e_pc' = "loaded"
    /\ UNCHANGED e_result

Extract ==
    /\ e_pc = "loaded"
    /\ e_result' = extract_contour_with_fallback(e_views, e_config)
    /\ e_pc' = "extracted"
    /\ UNCHANGED <<e_views, e_config>>

FallbackReset ==
    /\ e_pc = "extracted"
    /\ e_pc' = "idle" /\ e_views' = <<>> /\ e_config' = <<>> /\ e_result' = <<>>

InitFallback ==
    ExerciseUnused /\ ActivityUnused /\ ContourUnused /\ SessionUnused /\ PercentileUnused /\ PeriodicityUnused /\ ScreenUnused
    /\ ReliabilityUnused /\ FramesUnused /\ RepeatUnused /\ CaptureUnused
    /\ HysteresisUnused /\ PerturbationUnused /\ FallbackIdle

NextFallback ==
    \/ FallbackLoad /\ UNCHANGED notFallback
    \/ Extract /\ UNCHANGED notFallback
    \/ FallbackReset /\ UNCHANGED notFallback

SpecFallback == InitFallback /\ [][NextFallback]_vars


----------------------------------------------------------------------------
(* Percentiles of the voiced frequencies (specification SpecPercentile):      *)
(* dsp/contour.rs percentile as analysis/reading.rs and analysis/scale.rs     *)
(* call it, after sorting, for the F0 range.                                  *)

\* the longest list of frequencies
MaxSorted == 12

\* p, in percent
Percents == {0, 5, 25, 50, 75, 95, 100}

\* non-empty lists: a ramp of distinct frequencies, or steps of three frequencies
FrequencyLists ==
    ({[i \in 1..n |-> 100 + i] : n \in 1..MaxSorted}
     \cup {[i \in 1..(a + b + c) |-> IF i <= a THEN 100 ELSE IF i <= a + b THEN 150 ELSE 200] :
             a \in 0..3, b \in 0..MaxSorted, c \in 0..3}) \ {<<>>}

PercentileIdle == q_pc = "idle" /\ q_frequencies = <<>> /\ q_p = 0 /\ q_out = <<>>

PercentileLoad ==
    /\ q_pc = "idle"
    /\ q_frequencies' \in FrequencyLists
    /\ q_p' \in Percents
    /\ q_pc' = "loaded"
    /\ UNCHANGED q_out

\* sort, then the 5th and the 95th percentile, and the percentile at p
F0Range ==
    /\ q_pc = "loaded"
    /\ \E sorted \in {sort_by(q_frequencies)} :
          q_out' = [sorted |-> sorted,
                    f0_low |-> percentile(sorted, 5),
                    f0_high |-> percentile(sorted, 95),
                    at_p |-> percentile(sorted, q_p)]
    /\ q_pc' = "ranged"
    /\ UNCHANGED <<q_frequencies, q_p>>

PercentileReset ==
    /\ q_pc = "ranged"
    /\ q_pc' = "idle" /\ q_frequencies' = <<>> /\ q_p' = 0 /\ q_out' = <<>>

InitPercentile ==
    ExerciseUnused /\ ActivityUnused /\ ContourUnused /\ SessionUnused /\ PeriodicityUnused /\ ScreenUnused
    /\ ReliabilityUnused /\ FramesUnused /\ RepeatUnused /\ CaptureUnused
    /\ HysteresisUnused /\ PerturbationUnused /\ FallbackUnused /\ PercentileIdle

NextPercentile ==
    \/ PercentileLoad /\ UNCHANGED notPercentile
    \/ F0Range /\ UNCHANGED notPercentile
    \/ PercentileReset /\ UNCHANGED notPercentile

SpecPercentile == InitPercentile /\ [][NextPercentile]_vars


----------------------------------------------------------------------------
(* Periodicity under an activity mask (specification SpecPeriodicity):        *)
(* dsp/periodicity.rs compute_periodicity. r[i] is the clamped normalized     *)
(* autocorrelation of the window of frame i, None when the window is shorter  *)
(* than two periods.                                                          *)

\* the longest contour and the longest mask
MaxPeriodicityFrames == 3

Correlations == {<<1, 4>>, <<1, 1>>}

\* the values the loop pushes
RECURSIVE periodicity_values(_, _, _, _)
periodicity_values(r, contour, active_frames, i) ==
    IF i > Len(contour) THEN <<>>
    ELSE IF ~is_some(contour[i].frequency)
    THEN periodicity_values(r, contour, active_frames, i + 1)
    ELSE IF i <= Len(active_frames) /\ ~active_frames[i]
    THEN periodicity_values(r, contour, active_frames, i + 1)
    ELSE IF ~is_some(r[i])
    THEN periodicity_values(r, contour, active_frames, i + 1)
    ELSE <<unwrap(r[i])>> \o periodicity_values(r, contour, active_frames, i + 1)

\* compute_periodicity on the autocorrelations of the frames' windows
periodicity_of(r, contour, active_frames) ==
    LET values == periodicity_values(r, contour, active_frames, 1)
    IN IF values = <<>> THEN None ELSE Some(RMean(values))

PeriodicityIdle ==
    /\ y_pc = "idle" /\ y_contour = <<>> /\ y_active = <<>> /\ y_r = <<>> /\ y_out = <<>>

PeriodicityLoad ==
    /\ y_pc = "idle"
    /\ \E voicing \in SeqsUpTo(BOOLEAN, MaxPeriodicityFrames), short \in 0..1 :
          /\ Len(voicing) >= short
          /\ y_contour' = [i \in 1..Len(voicing) |->
                              PitchFrame((i - 1) * 10, IF voicing[i] THEN Some(200) ELSE None)]
          /\ \E c \in [1..Len(voicing) -> Correlations] :
                y_r' = [i \in 1..Len(voicing) |->
                          IF i > Len(voicing) - short THEN None ELSE Some(c[i])]
    /\ y_active' \in SeqsUpTo(BOOLEAN, MaxPeriodicityFrames)
    /\ y_pc' = "loaded"
    /\ UNCHANGED y_out

ComputePeriodicity ==
    /\ y_pc = "loaded"
    /\ y_out' = [periodicity_mean |-> periodicity_of(y_r, y_contour, y_active)]
    /\ y_pc' = "computed"
    /\ UNCHANGED <<y_contour, y_active, y_r>>

PeriodicityReset ==
    /\ y_pc = "computed"
    /\ y_pc' = "idle" /\ y_contour' = <<>> /\ y_active' = <<>> /\ y_r' = <<>> /\ y_out' = <<>>

InitPeriodicity ==
    ExerciseUnused /\ ActivityUnused /\ ContourUnused /\ SessionUnused /\ ScreenUnused
    /\ ReliabilityUnused /\ FramesUnused /\ RepeatUnused /\ CaptureUnused
    /\ HysteresisUnused /\ PerturbationUnused /\ FallbackUnused /\ PercentileUnused
    /\ PeriodicityIdle

NextPeriodicity ==
    \/ PeriodicityLoad /\ UNCHANGED notPeriodicity
    \/ ComputePeriodicity /\ UNCHANGED notPeriodicity
    \/ PeriodicityReset /\ UNCHANGED notPeriodicity

SpecPeriodicity == InitPeriodicity /\ [][NextPeriodicity]_vars


----------------------------------------------------------------------------
(* The recording screens' poll loop (specification SpecScreen):               *)
(* tui/screens/recording.rs and tui/screens/scale.rs run, tui/screens/sz.rs   *)
(* run in its Recording state, audio/capture.rs is_silent. One action per     *)
(* event the loop receives. Time is in whole seconds.                         *)

\* dB
SILENCE_THRESHOLD_DB == -50
SILENCE_POLL_COUNT == 45
\* s
MIN_DURATION_SECS == 3

\* the longest recording (s)
MaxElapsed == 5

ScreenLevels == {-60, -50, -40}
Screens == {"recording", "scale", "sz"}

\* AudioState::is_silent on the live level
is_silent(rms_db) == rms_db < SILENCE_THRESHOLD_DB

\* a counter that a loud poll leaves as it is
silence_step_keeping(silent_polls, elapsed, quiet) ==
    IF elapsed > MIN_DURATION_SECS /\ quiet THEN silent_polls + 1 ELSE silent_polls

\* the counter after one pass of the auto-stop check
silence_step(silent_polls, elapsed, quiet) ==
    IF elapsed > MIN_DURATION_SECS /\ quiet THEN silent_polls + 1 ELSE 0

\* the events that reach the auto-stop check of a screen
PollEvents(screen) ==
    IF screen = "sz" THEN {"tick", "resize"} ELSE {"tick", "resize", "other_key"}

\* trailing silence is 33 ms per poll; sz reports the elapsed time on a key
outcome_of(screen, by_key, elapsed, silent_polls) ==
    LET trailing == silent_polls * 33
        ms == elapsed * 1000
    IN [phonation_ms |-> IF screen = "sz" /\ by_key THEN ms
                         ELSE IF ms - trailing > 0 THEN ms - trailing ELSE 0,
        silent_polls |-> silent_polls]

ScreenIdle ==
    /\ w_pc = "idle" /\ w_screen = "" /\ w_elapsed = 0 /\ w_silent_polls = 0
    /\ w_event = <<>> /\ w_streak = 0 /\ w_outcome = <<>>

ScreenStart ==
    /\ w_pc = "idle"
    /\ w_screen' \in Screens
    /\ w_pc' = "recording"
    /\ w_elapsed' = 0 /\ w_silent_polls' = 0 /\ w_streak' = 0
    /\ UNCHANGED <<w_event, w_outcome>>

\* a tick, a resize, or (recording, scale) a key that does not stop
Poll ==
    /\ w_pc = "recording"
    /\ \E kind \in PollEvents(w_screen), adv \in 0..1, level \in ScreenLevels :
          /\ w_elapsed + adv <= MaxElapsed
          /\ w_elapsed' = w_elapsed + adv
          /\ w_event' = [kind |-> kind, level |-> level]
          /\ \E n \in {silence_step(w_silent_polls, w_elapsed + adv, is_silent(level))} :
                /\ w_silent_polls' = n
                /\ IF n >= SILENCE_POLL_COUNT
                   THEN /\ w_pc' = "done"
                        /\ w_outcome' = outcome_of(w_screen, FALSE, w_elapsed + adv, n)
                   ELSE /\ w_pc' = "recording"
                        /\ UNCHANGED w_outcome
          /\ w_streak' = IF w_elapsed + adv > MIN_DURATION_SECS /\ level < SILENCE_THRESHOLD_DB
                         THEN w_streak + 1 ELSE 0
    /\ UNCHANGED w_screen

\* Enter (every screen), q or Esc (recording, scale)
StopKey ==
    /\ w_pc = "recording"
    /\ \E adv \in 0..1, level \in ScreenLevels :
          /\ w_elapsed + adv <= MaxElapsed
          /\ w_elapsed' = w_elapsed + adv
          /\ w_event' = [kind |-> "stop_key", level |-> level]
          /\ w_outcome' = outcome_of(w_screen, TRUE, w_elapsed + adv, w_silent_polls)
    /\ w_pc' = "done"
    /\ UNCHANGED <<w_screen, w_silent_polls, w_streak>>

\* sz: a key other than Enter while recording changes nothing
IgnoredKey ==
    /\ w_pc = "recording" /\ w_screen = "sz"
    /\ \E level \in ScreenLevels : w_event' = [kind |-> "other_key", level |-> level]
    /\ UNCHANGED <<w_pc, w_screen, w_elapsed, w_silent_polls, w_streak, w_outcome>>

ScreenClose ==
    /\ w_pc = "done"
    /\ w_pc' = "idle" /\ w_screen' = "" /\ w_elapsed' = 0 /\ w_silent_polls' = 0
    /\ w_event' = <<>> /\ w_streak' = 0 /\ w_outcome' = <<>>

InitScreen ==
    ExerciseUnused /\ ActivityUnused /\ ContourUnused /\ SessionUnused
    /\ ReliabilityUnused /\ FramesUnused /\ RepeatUnused /\ CaptureUnused
    /\ HysteresisUnused /\ PerturbationUnused /\ FallbackUnused /\ PercentileUnused
    /\ PeriodicityUnused /\ ScreenIdle

NextScreen ==
    \/ ScreenStart /\ UNCHANGED notScreen
    \/ Poll /\ UNCHANGED notScreen
    \/ StopKey /\ UNCHANGED notScreen
    \/ IgnoredKey /\ UNCHANGED notScreen
    \/ ScreenClose /\ UNCHANGED notScreen

SpecScreen == InitScreen /\ [][NextScreen]_vars


----------------------------------------------------------------------------
(* Properties of the exercise analysis (specification Spec) *)

\* the indices of a contour's frames that carry a frequency
VoicedIdx(c) == {i \in 1..Len(c) : c[i].frequency # None}

\* the contour has at least num/den of its frames voiced (an empty contour has 0)
AtLeast(c, num, den) == c # <<>> /\ den * Cardinality(VoicedIdx(c)) >= num * Len(c)

\* the standard and the relaxed detector passes over the loaded buffer
StandardContour ==
    [i \in 1..Len(Frames(buffer)) |->
        PitchFrame((i - 1) * config.hop_size_ms,
                   IF Frames(buffer)[i].std # None
                      /\ Frames(buffer)[i].std[1] >= config.pitch_floor_hz
                      /\ Frames(buffer)[i].std[1] <= config.pitch_ceiling_hz
                   THEN Frames(buffer)[i].std ELSE None)]
RelaxedContour ==
    [i \in 1..Len(Frames(buffer)) |->
        PitchFrame((i - 1) * config.hop_size_ms,
                   IF Frames(buffer)[i].rel # None
                      /\ Frames(buffer)[i].rel[1] >= config.pitch_floor_hz
                      /\ Frames(buffer)[i].rel[1] <= config.pitch_ceiling_hz
                   THEN Frames(buffer)[i].rel ELSE None)]

\* C1: detection returns the Standard contour if its voiced fraction is >= 0.20,
\* otherwise the Relaxed contour if its voiced fraction is >= 0.10, otherwise the
\* EnergyFallback contour (a frame is voiced there exactly when its RMS level is
\* above the threshold); the fallback flag is true exactly for the EnergyFallback
\* contour and the label names the tier returned.
C1_TierOrder ==
    pc = "detected" =>
        /\ AtLeast(StandardContour, 1, 5) =>
              /\ result.contour = StandardContour
              /\ result.detection_quality = "pitch"
        /\ ~AtLeast(StandardContour, 1, 5) /\ AtLeast(RelaxedContour, 1, 10) =>
              /\ result.contour = RelaxedContour
              /\ result.detection_quality = "relaxed_pitch"
        /\ ~AtLeast(StandardContour, 1, 5) /\ ~AtLeast(RelaxedContour, 1, 10) =>
              /\ result.detection_quality = "energy_fallback"
              /\ Len(result.contour) = Len(Frames(buffer))
              /\ VoicedIdx(result.contour) =
                    {i \in 1..Len(Frames(buffer)) :
                        Frames(buffer)[i].rms_db > ENERGY_THRESHOLD_DB}
        /\ result.used_energy_fallback <=> result.detection_quality = "energy_fallback"

\* C1: the relaxed tier is returned for a buffer whose standard pass found voiced
\* frames, but fewer than a fifth
C1_RelaxedChosen ==
    /\ pc = "detected"
    /\ result.detection_quality = "relaxed_pitch"
    /\ VoicedIdx(StandardContour) # {}
    /\ 10 * Cardinality(VoicedIdx(RelaxedContour)) = Len(RelaxedContour)

\* C2: in every contour detection returns, each frame whose frequency is present
\* has pitch_floor_hz <= frequency <= pitch_ceiling_hz.
C2_FrequencyInRange ==
    pc \in {"detected", "sustained", "reading", "scale"} =>
        \A i \in VoicedIdx(result.contour) :
            /\ config.pitch_floor_hz <= result.contour[i].frequency[1]
            /\ result.contour[i].frequency[1] <= config.pitch_ceiling_hz

\* C3: sustained and reading analysis fail, with NoVoicedContent, exactly when the
\* contour detection returned has no voiced frame; an all-zero buffer fails so.
C3_NoVoicedContent ==
    pc \in {"sustained", "reading"} =>
        /\ ~out.ok <=> VoicedIdx(result.contour) = {}
        /\ ~out.ok => out.error = NoVoicedContent
        /\ silent => ~out.ok

\* C3: reading analysis of a buffer that is not silent, in which no tier finds a
\* voiced frame, fails
C3_QuietBufferFails ==
    /\ pc = "reading"
    /\ ~silent
    /\ ~out.ok
    /\ Len(result.contour) > 1

\* C5: when a metric of a sustained analysis has no result, the analysis succeeds
\* and the metric's field of the record is empty.
C5_NoResultIsEmpty ==
    pc = "sustained" /\ out.ok =>
        /\ metrics.jitter = None /\ ~result.used_energy_fallback =>
              out.value.jitter_local_percent = None
        /\ metrics.shimmer = None => out.value.shimmer_local_percent = None
        /\ metrics.hnr = None => out.value.hnr_db = None
        /\ metrics.cpps = None => out.value.cpps_db = None
        /\ metrics.periodicity = None => out.value.periodicity_mean = None

\* C6: a sustained analysis on the EnergyFallback contour reports jitter zero and a
\* detection-quality label naming the energy fallback; the label is absent exactly
\* when the Standard tier produced the contour.
C6_FallbackJitterAndLabel ==
    pc = "sustained" /\ out.ok =>
        /\ result.used_energy_fallback =>
              /\ out.value.jitter_local_percent = Zero
              /\ out.value.detection_quality = Some("energy_fallback")
        /\ out.value.detection_quality = None <=> result.detection_quality = "pitch"
        /\ out.value.detection_quality # None =>
              out.value.detection_quality = Some(result.detection_quality)

\* C6: a sustained analysis succeeds on an EnergyFallback contour with two
\* consecutive voiced frames
C6_FallbackSustained ==
    /\ pc = "sustained"
    /\ out.ok
    /\ result.used_energy_fallback
    /\ \E i \in VoicedIdx(result.contour) : i + 1 \in VoicedIdx(result.contour)

\* the unvoiced stretches between two voiced frames of a contour whose duration is
\* within [50 ms, 250 ms], each as <<last voiced frame before, first voiced after>>
QualifyingGaps(c, hop_size_ms) ==
    {g \in VoicedIdx(c) \X VoicedIdx(c) :
        /\ g[1] + 1 < g[2]
        /\ \A k \in (g[1] + 1)..(g[2] - 1) : k \notin VoicedIdx(c)
        /\ (g[2] - g[1] - 1) * hop_size_ms >= 50
        /\ (g[2] - g[1] - 1) * hop_size_ms <= 250}

\* C7: reading analysis reports 0 voice breaks on an EnergyFallback contour, and
\* the number of qualifying gaps on a Standard or Relaxed contour.
C7_BreaksGated ==
    pc = "reading" /\ out.ok =>
        out.value.voice_breaks =
            IF result.used_energy_fallback THEN 0
            ELSE Cardinality(QualifyingGaps(result.contour, config.hop_size_ms))

\* C7: reading analysis of an EnergyFallback contour that contains a qualifying gap
C7_FallbackWithGap ==
    /\ pc = "reading"
    /\ out.ok
    /\ result.used_energy_fallback
    /\ QualifyingGaps(result.contour, config.hop_size_ms) # {}

----------------------------------------------------------------------------
(* Properties of the contour functions (specification SpecContour) *)

\* a..b is a stretch of frames that starts and ends voiced and holds no unvoiced
\* stretch longer than 250 ms
Bridged(c, a, b, hop_size_ms) ==
    /\ a \in VoicedIdx(c) /\ b \in VoicedIdx(c) /\ a <= b
    /\ \A i \in a..b : \A j \in i..b :
          (\A k \in i..j : k \notin VoicedIdx(c)) => (j - i + 1) * hop_size_ms <= 250

\* the durations (ms) of the bridged stretches
BridgedDurations(c, hop_size_ms) ==
    {(b - a + 1) * hop_size_ms :
        <<a, b>> \in {x \in (1..Len(c)) \X (1..Len(c)) : Bridged(c, x[1], x[2], hop_size_ms)}}

----------------------------------------------------------------------------
(* Properties of activity detection (specification SpecActivity) *)

\* C8: for an all-zero buffer, of any length, no frame of the returned mask is
\* active and the active fraction is 0.
C8_SilenceInactive ==
    a_pc = "detected" /\ (\A i \in 1..Len(a_input) : a_input[i] = NEG_INFINITY) =>
        /\ \A i \in 1..Len(a_result.active_frames) : ~a_result.active_frames[i]
        /\ a_result.active_fraction = Zero

----------------------------------------------------------------------------
(* Properties of analyze_session (specification SpecSession) *)

\* the recording of e exists, loads, and holds a frame some tier finds voiced
Analyzable(e) ==
    /\ s_paths[e]
    /\ s_wavs[e].readable
    /\ \E i \in 1..Len(Frames(s_wavs[e].buffer)) :
          Frames(s_wavs[e].buffer)[i].std # None

\* C4: when analyze_session has ended, every exercise whose own analysis succeeds
\* has been analysed and has a result, and when the analysis of another exercise
\* failed that result is still in the stored session.
C4_FailurePerExercise ==
    s_pc \in {"done", "failed"} /\ s_attempted # {} =>
        \A e \in Exercises :
            Analyzable(e) =>
                /\ e \in s_attempted
                /\ s_analysis[e] # None
                /\ (\E f \in s_attempted : s_analysis[f] = None) =>
                      /\ s_store # None
                      /\ s_store[1].analysis[e] # None

\* the maximal intervals of consecutive voiced frames of a contour
MaximalRuns(c) ==
    {r \in (1..Len(c)) \X (1..Len(c)) :
        /\ r[1] <= r[2]
        /\ \A k \in r[1]..r[2] : k \in VoicedIdx(c)
        /\ (r[1] - 1) \notin VoicedIdx(c)
        /\ (r[2] + 1) \notin VoicedIdx(c)}

\* C11: the voiced-run list holds exactly the maximal intervals of consecutive
\* voiced frames: each run has start <= end within the contour and only voiced
\* frames, the runs are in ascending order with an unvoiced frame between
\* neighbours, and every voiced frame lies in exactly one run.
C11_RunsAreMaximalIntervals ==
    c_pc = "runs" =>
        /\ {c_out[i] : i \in 1..Len(c_out)} = MaximalRuns(c_contour)
        /\ Len(c_out) = Cardinality(MaximalRuns(c_contour))
        /\ \A i \in 1..Len(c_out) :
              /\ 1 <= c_out[i][1] /\ c_out[i][1] <= c_out[i][2]
              /\ c_out[i][2] <= Len(c_contour)
        /\ \A i \in 1..(Len(c_out) - 1) : c_out[i][2] + 1 < c_out[i + 1][1]
        /\ \A k \in VoicedIdx(c_contour) :
              Cardinality({i \in 1..Len(c_out) : c_out[i][1] <= k /\ k <= c_out[i][2]}) = 1

\* C11: the runs of a contour that begins and ends voiced, with three runs
C11_ThreeRuns ==
    /\ c_pc = "runs"
    /\ Len(c_contour) = 8
    /\ VoicedIdx(c_contour) = {1, 2, 4, 7, 8}
    /\ c_out = <<<<1, 2>>, <<4, 4>>, <<7, 8>>>>

\* runs in ascending order, none overlapping another
Ascending(runs) ==
    /\ \A i \in 1..Len(runs) : runs[i][1] <= runs[i][2]
    /\ \A i \in 1..(Len(runs) - 1) : runs[i][2] < runs[i + 1][1]

\* C12: merging the merged list again with the same tolerance returns the same
\* list, and the merged list is in ascending order.
C12_MergeIdempotent ==
    c_pc = "merged" =>
        /\ merge_close_runs(c_out, c_gap) = c_out
        /\ Ascending(c_out)

\* C12: a chain of three runs with small gaps collapsed into one, beside a run
\* that stays apart
C12_ChainCollapsed ==
    /\ c_pc = "merged"
    /\ c_gap = 1
    /\ c_runs = <<<<1, 1>>, <<2, 2>>, <<4, 4>>>>
    /\ c_out = <<<<1, 4>>>>

----------------------------------------------------------------------------
(* Properties of ReliabilityInfo::compute (specification SpecReliability) *)

\* the largest of the three tier counts
LargestCount(tc) == CHOOSE n \in {tc[1], tc[2], tc[3]} : \A t \in 1..3 : tc[t] <= n

\* the rank of an analysis quality, higher is better
QualityRank(q) == CASE q = "good" -> 2 [] q = "ok" -> 1 [] q = "trend_only" -> 0

\* C15: the dominant tier is a tier with the largest frame count, and no tier
\* with a lower number has that count, for every triple of counts.
C15_DominantTier ==
    r_pc = "computed" =>
        /\ r_out.dominant_tier \in 1..3
        /\ r_in.tier_counts[r_out.dominant_tier] = LargestCount(r_in.tier_counts)
        /\ \A t \in 1..3 : t < r_out.dominant_tier
                => r_in.tier_counts[t] < LargestCount(r_in.tier_counts)

\* C15 witness: tiers 2 and 3 tie above tier 1 and tier 2 is the dominant one
C15_TieToLowerTier ==
    /\ r_pc = "computed"
    /\ r_in.tier_counts[2] = r_in.tier_counts[3]
    /\ r_in.tier_counts[1] < r_in.tier_counts[2]
    /\ r_out.dominant_tier = 2

\* C14: the quality is "good" when tier 1 dominates and more than half of the
\* active frames are pitched, "ok" when tier 1 or 2 dominates and more than
\* 3/10 are pitched, "trend_only" otherwise, hence always "trend_only" when
\* tier 3 dominates; and with the same dominant tier no smaller pitched
\* fraction gives a better quality.
C14_AnalysisQuality ==
    r_pc = "computed" =>
        /\ r_out.analysis_quality =
              IF r_out.dominant_tier = 1
                 /\ 2 * r_in.pitched_fraction[1] > r_in.pitched_fraction[2]
              THEN "good"
              ELSE IF r_out.dominant_tier \in {1, 2}
                      /\ 10 * r_in.pitched_fraction[1] > 3 * r_in.pitched_fraction[2]
              THEN "ok"
              ELSE "trend_only"
        /\ r_out.dominant_tier = 3 => r_out.analysis_quality = "trend_only"
        /\ \A f \in Fractions :
              f[1] * r_in.pitched_fraction[2] <= r_in.pitched_fraction[1] * f[2]
                => QualityRank(compute(r_in.tier_counts, r_in.active_fraction, f,
                                       r_in.has_cpps).analysis_quality)
                      <= QualityRank(r_out.analysis_quality)

\* C14 witness: tier 1 dominates and exactly half of the frames are pitched: "ok"
C14_HalfIsOk ==
    /\ r_pc = "computed"
    /\ r_out.dominant_tier = 1
    /\ r_in.pitched_fraction = <<5, 10>>
    /\ r_out.analysis_quality = "ok"

\* C16: jitter is valid exactly when the dominant tier is 1 or 2 and more than
\* 3/10 of the active frames are pitched; shimmer and HNR exactly when the
\* dominant tier is 1 or 2; CPPS exactly when a CPPS value was computed; voice
\* breaks are "valid", "trend_only", "unavailable" for dominant tier 1, 2, 3.
C16_MetricsValidity ==
    r_pc = "computed" =>
        /\ r_out.metrics_validity.jitter
              <=> (r_out.dominant_tier \in {1, 2}
                   /\ 10 * r_in.pitched_fraction[1] > 3 * r_in.pitched_fraction[2])
        /\ r_out.metrics_validity.shimmer <=> r_out.dominant_tier \in {1, 2}
        /\ r_out.metrics_validity.hnr <=> r_out.dominant_tier \in {1, 2}
        /\ r_out.metrics_validity.cpps <=> r_in.has_cpps
        /\ r_out.metrics_validity.voice_breaks =
              CASE r_out.dominant_tier = 1 -> "valid"
                [] r_out.dominant_tier = 2 -> "trend_only"
                [] r_out.dominant_tier = 3 -> "unavailable"

\* C16 witness: tier 2 dominates with 3/10 pitched: shimmer valid, jitter not
C16_ShimmerValidJitterNot ==
    /\ r_pc = "computed"
    /\ r_out.dominant_tier = 2
    /\ r_in.pitched_fraction = <<3, 10>>
    /\ r_out.metrics_validity.shimmer
    /\ ~r_out.metrics_validity.jitter
    /\ r_out.metrics_validity.voice_breaks = "trend_only"


----------------------------------------------------------------------------
(* Properties of the frame loops (specification SpecFrames) *)

\* both contours of the loaded buffer are complete
ContoursBuilt == f_pc \in {"activity", "cpps", "done"}

\* C13: once both contours are built, the pitch contour has no frame when the
\* buffer is shorter than the detector window and floor((N - window)/hop) + 1
\* frames otherwise, frame i at sample offset i x hop, whatever the buffer
\* holds; the energy-based contour has the same number of frames at the same
\* times.
C13_ContourLength ==
    ContoursBuilt =>
        /\ Len(f_contour) =
              IF f_in.len < detector_size(f_in.config, f_in.sample_rate) THEN 0
              ELSE (f_in.len - detector_size(f_in.config, f_in.sample_rate))
                      \div hop_size(f_in.config, f_in.sample_rate) + 1
        /\ \A i \in 1..Len(f_contour) :
              f_contour[i].time =
                 <<(i - 1) * hop_size(f_in.config, f_in.sample_rate), f_in.sample_rate>>
        /\ Len(f_energy) = Len(f_contour)
        /\ \A i \in 1..Len(f_contour) : f_energy[i].time = f_contour[i].time

\* C13 witness: a contour of at least three frames whose last window ends
\* before the end of the buffer, next to a window-sized frame that does not fit
C13_SeveralFramesWithRemainder ==
    /\ f_pc = "done"
    /\ Len(f_contour) >= 3
    /\ Len(f_energy) = Len(f_contour)
    /\ frame_size(f_in.config, f_in.sample_rate)
          < detector_size(f_in.config, f_in.sample_rate)
    /\ (f_in.len - detector_size(f_in.config, f_in.sample_rate))
          % hop_size(f_in.config, f_in.sample_rate) # 0
    /\ f_contour[1].frequency # None

\* C18: every iteration of a frame loop (pitch contour, energy contour,
\* activity frames, CPPS frames) advances its position by a positive number
\* of samples.
C18_EveryIterationAdvances ==
    /\ (f_pc = "pitch"
        /\ f_pos + detector_size(f_in.config, f_in.sample_rate) <= f_in.len)
          => hop_size(f_in.config, f_in.sample_rate) > 0
    /\ (f_pc = "energy"
        /\ f_pos + energy_detector_size(f_in.config, f_in.sample_rate) <= f_in.len)
          => hop_size(f_in.config, f_in.sample_rate) > 0
    /\ (f_pc = "activity" /\ f_mask # <<>>)
          => ms_to_samples(f_in.activity_frame_size_ms, f_in.sample_rate) > 0
    /\ (f_pc = "cpps" /\ ~cpps_returns_early(f_in.len, f_in.sample_rate)
        /\ f_pos + frame_size(CppsConfigDefault, f_in.sample_rate) <= f_in.len)
          => hop_size(CppsConfigDefault, f_in.sample_rate) > 0

\* C20: when the activity frame size equals the pitch hop size, every frame of
\* the finished contour has a mask entry of the same index, and that entry
\* starts at the sample offset of the contour frame.
C20_MaskAligned ==
    (f_pc = "done" /\ f_in.activity_frame_size_ms = f_in.config.hop_size_ms) =>
        \A i \in 1..Len(f_contour) :
            /\ i <= Len(f_mask)
            /\ f_mask[i].offset = f_contour[i].time[1]


----------------------------------------------------------------------------
(* Properties of repeated analysis (specification SpecRepeat) *)

----------------------------------------------------------------------------
(* Properties of the capture threads (specification SpecCapture) *)

\* C17: whenever the analysis holds or has read a buffer, the stop flag is set,
\* the stream's closure and sender are gone, the collector thread has ended
\* with an empty channel, the buffer is exactly the samples the callback
\* enqueued, in callback order (the WAV file of record_to_file their 16-bit
\* values), and the buffer the analysis read is that buffer (for start_capture,
\* whose caller trims trailing silence, that buffer without some last samples).
C17_CompleteBufferAfterStop ==
    k_pc \in {"handed", "analysed"} =>
        /\ k_stop
        /\ ~k_tx /\ k_cb = "idle"
        /\ k_col = "done" /\ k_chan = <<>>
        /\ k_buffer = k_sent
        /\ k_all = k_buffer
        /\ k_kind = "record_to_file"
              => k_wav = [i \in 1..Len(k_sent) |-> to_i16(k_sent[i])]
        /\ k_pc = "analysed" =>
              IF k_kind = "start_capture"
              THEN /\ Len(k_seen) <= Len(k_sent)
                   /\ k_seen = SubSeq(k_sent, 1, Len(k_seen))
              ELSE k_seen = k_sent

\* C17 witness: the analysis has read a buffer of two chunks, the second of
\* them sent by a callback that loaded the stop flag before it was set and
\* sent after, while a later chunk was discarded
C17_LateSendCollected ==
    /\ k_pc = "analysed"
    /\ k_kind = "record_with_live_feedback"
    /\ k_late
    /\ k_seen = Chunk(1) \o Chunk(2)
    /\ k_next = MaxChunks + 1


----------------------------------------------------------------------------
(* Properties of the hysteresis loop (specification SpecHysteresis) *)

\* C21: the loop starts inactive; a frame turns the state from inactive to
\* active exactly when its level is at or above threshold_on_db, from active to
\* inactive exactly when its level is below threshold_off_db, a frame between
\* the thresholds leaves the state as it is, and the mask entry of the frame is
\* the state after it.
C21_HysteresisTransitions ==
    [][ /\ (h_pc = "idle" /\ h_pc' = "loop") => ~h_is_active'
        /\ (h_pc = "loop" /\ h_i' = h_i + 1) =>
              /\ (~h_is_active /\ h_is_active')
                    <=> (~h_is_active
                         /\ h_in.rms_db_values[h_i] >= h_in.config.threshold_on_db)
              /\ (h_is_active /\ ~h_is_active')
                    <=> (h_is_active
                         /\ h_in.rms_db_values[h_i] < h_in.config.threshold_off_db)
              /\ (h_in.rms_db_values[h_i] < h_in.config.threshold_on_db
                  /\ h_in.rms_db_values[h_i] >= h_in.config.threshold_off_db)
                    => h_is_active' = h_is_active
              /\ h_mask' = Append(h_mask, h_is_active') ]_vars

\* C21 witness: a frame between the thresholds leaves the state inactive before
\* the loud frame and active after it; the loop's mask is that of detect_activity
C21_BetweenThresholdsKeepsState ==
    /\ h_pc = "done"
    /\ h_in.rms_db_values = <<-48, -40, -48, -60>>
    /\ h_mask = <<FALSE, TRUE, TRUE, FALSE>>
    /\ h_mask = hysteresis(h_in.rms_db_values, h_in.config, FALSE, <<>>)


\* the maximal runs of value v in a mask, as <<first, last>> index pairs
MaskRuns(mask, v) ==
    {r \in (1..Len(mask)) \X (1..Len(mask)) :
        /\ r[1] <= r[2]
        /\ \A k \in r[1]..r[2] : mask[k] = v
        /\ (r[1] = 1 \/ mask[r[1] - 1] # v)
        /\ (r[2] = Len(mask) \/ mask[r[2] + 1] # v)}

\* no active run is shorter than min_active_ms, no inactive run than min_silent_ms
NoShortRuns(mask, cfg) ==
    /\ \A r \in MaskRuns(mask, TRUE) :
          (r[2] - r[1] + 1) * cfg.frame_size_ms >= cfg.min_active_ms
    /\ \A r \in MaskRuns(mask, FALSE) :
          (r[2] - r[1] + 1) * cfg.frame_size_ms >= cfg.min_silent_ms

\* C22 as stated: the mask returned by detect_activity has no active run shorter
\* than min_active_ms and no inactive run shorter than min_silent_ms, for every
\* buffer.
C22_NoShortRunsEver ==
    a_pc = "detected" => NoShortRuns(a_result.active_frames, a_config)



\* the frames between two runs
GapBetween(a, b) == b[1] - a[2] - 1

\* C23: in the merged list every remaining gap is larger than the tolerance,
\* every merged run starts at the start of an input run and ends at the end of
\* an input run, every input run lies in a merged run, and two neighbouring
\* input runs lie in the same merged run exactly when the gap between them is
\* at most the tolerance.
C23_MergeExactlySmallGaps ==
    c_pc = "merged" =>
        /\ \A i \in 1..(Len(c_out) - 1) : GapBetween(c_out[i], c_out[i + 1]) > c_gap
        /\ \A i \in 1..Len(c_out) :
              /\ \E j \in 1..Len(c_runs) : c_runs[j][1] = c_out[i][1]
              /\ \E j \in 1..Len(c_runs) : c_runs[j][2] = c_out[i][2]
        /\ \A j \in 1..Len(c_runs) :
              \E i \in 1..Len(c_out) :
                 c_out[i][1] <= c_runs[j][1] /\ c_runs[j][2] <= c_out[i][2]
        /\ \A j \in 1..(Len(c_runs) - 1) :
              (\E i \in 1..Len(c_out) :
                  c_out[i][1] <= c_runs[j][1] /\ c_runs[j + 1][2] <= c_out[i][2])
                 <=> GapBetween(c_runs[j], c_runs[j + 1]) <= c_gap

\* C23 witness: a gap equal to the tolerance is bridged, a gap one frame larger
\* is kept
C23_GapAtToleranceBridged ==
    /\ c_pc = "merged"
    /\ c_gap = 1
    /\ c_runs = << <<1, 1>>, <<3, 3>>, <<6, 6>> >>
    /\ c_out = << <<1, 3>>, <<6, 6>> >>


----------------------------------------------------------------------------
(* Properties of jitter and shimmer (specification SpecPerturbation) *)

voiced_at(contour, i) == i \in 1..Len(contour) /\ is_some(contour[i].frequency)

\* the frames that directly follow a voiced frame and are voiced themselves
ConsecutivePairs(contour) ==
    {i \in 2..Len(contour) : voiced_at(contour, i - 1) /\ voiced_at(contour, i)}

\* mean over the pairs of |1/f0[i] - 1/f0[i-1]|
MeanPeriodDifference(contour) ==
    LET d == [i \in 1..Len(contour) |->
                IF i > 1 /\ voiced_at(contour, i - 1) /\ voiced_at(contour, i)
                THEN RAbsDiff(Rat(1, unwrap(contour[i].frequency)),
                              Rat(1, unwrap(contour[i - 1].frequency)))
                ELSE Zero]
        t == RSum(d)
    IN Rat(t[1], t[2] * Cardinality(ConsecutivePairs(contour)))

\* mean over the voiced frames of 1/f0
MeanPeriod(contour) ==
    LET d == [i \in 1..Len(contour) |->
                IF voiced_at(contour, i) THEN Rat(1, unwrap(contour[i].frequency))
                ELSE Zero]
        t == RSum(d)
    IN Rat(t[1], t[2] * Cardinality({i \in 1..Len(contour) : voiced_at(contour, i)}))

\* C24: local jitter has no result exactly when the contour has no two
\* consecutive voiced frames; otherwise it is 100 times the mean absolute
\* period difference over the pairs of consecutive voiced frames (no pair
\* spans an unvoiced frame) divided by the mean period.
C24_JitterOverConsecutivePairs ==
    j_pc = "measured" =>
        IF ConsecutivePairs(j_contour) = {} THEN j_out.jitter = None
        ELSE j_out.jitter =
                Some(RScale(RDiv(MeanPeriodDifference(j_contour), MeanPeriod(j_contour)), 100))

\* 100 Hz, unvoiced, 100 Hz, 110 Hz: one pair, and the mean period is over three frames
C24_OnePairAfterGap ==
    /\ j_pc = "measured"
    /\ Len(j_contour) = 4
    /\ j_contour[1].frequency = Some(100) /\ j_contour[2].frequency = None
    /\ j_contour[3].frequency = Some(100) /\ j_contour[4].frequency = Some(110)
    /\ j_out.jitter = Some(<<75, 8>>)


\* the frames the gated estimators may use: voiced, tier Standard (1) or Relaxed (2)
Qualifying(contour, tiers, i) ==
    i \in 1..Len(contour) /\ is_some(contour[i].frequency) /\ tiers[i] <= 2

\* some MIN_GATED_FRAMES consecutive frames all qualify
HasQualifyingChain(contour, tiers) ==
    \E a \in 1..(Len(contour) - MIN_GATED_FRAMES + 1) :
        \A i \in a..(a + MIN_GATED_FRAMES - 1) : Qualifying(contour, tiers, i)

QualifyingMs(contour, tiers, hop_size_ms) ==
    Cardinality({i \in 1..Len(contour) : Qualifying(contour, tiers, i)}) * hop_size_ms

\* the contour with every frame that does not qualify made unvoiced
OnlyQualifying(contour, tiers) ==
    [i \in 1..Len(contour) |->
        IF Qualifying(contour, tiers, i) THEN contour[i]
        ELSE PitchFrame(contour[i].time, None)]

\* C25: gated jitter and gated shimmer have a result only with at least 15
\* consecutive qualifying frames and at least 1.5 s of qualifying frames;
\* the result is that of the contour in which every other frame (an
\* EnergyFallback frame included) is unvoiced, so such a frame contributes
\* nothing and ends a chain; without a gated result the analysis keeps the
\* ungated value.
C25_GatedUsesQualifyingFramesOnly ==
    j_pc = "measured" =>
        \A only \in {OnlyQualifying(j_contour, j_tiers)},
           enough \in {/\ HasQualifyingChain(j_contour, j_tiers)
                       /\ QualifyingMs(j_contour, j_tiers, j_hop) >= MIN_GATED_DURATION_MS} :
           /\ is_some(j_out.jitter_gated) => enough
           /\ is_some(j_out.shimmer_gated) => enough
           /\ enough => j_out.jitter_gated = local_jitter_percent(only)
           /\ is_some(j_out.shimmer_gated) =>
                  j_out.shimmer_gated = shimmer_percent_of(j_amps, only)
           /\ ~is_some(j_out.jitter_gated) =>
                  j_out.jitter_percent = unwrap_or(j_out.jitter, Zero)
           /\ ~is_some(j_out.shimmer_gated) =>
                  j_out.shimmer_percent = unwrap_or(j_out.shimmer, Zero)

\* 14 Standard frames, one EnergyFallback frame, 14 Standard frames: 28
\* qualifying frames (2.8 s at 100 ms) but no chain of 15, so no gated result
C25_FallbackFrameEndsChain ==
    /\ j_pc = "measured" /\ j_hop = 100
    /\ Len(j_contour) = 2 * MIN_GATED_FRAMES - 1
    /\ \A i \in 1..Len(j_contour) :
          /\ is_some(j_contour[i].frequency)
          /\ j_tiers[i] = (IF i = MIN_GATED_FRAMES THEN 3 ELSE 1)
    /\ j_out.jitter_gated = None /\ j_out.shimmer_gated = None
    /\ is_some(j_out.jitter) /\ j_out.jitter_percent = unwrap(j_out.jitter)


----------------------------------------------------------------------------
(* Properties of the energy fallback (specification SpecFallback) *)

\* the in-range frequencies the relaxed tier found, as a sequence
RelaxedFrequencies ==
    LET idx == {i \in 1..Len(e_views) :
                    is_some(e_views[i].rel) /\ in_range(unwrap(e_views[i].rel), e_config)}
    IN [i \in idx |-> unwrap(e_views[i].rel)]

\* m is a median of the values of f: at least half are <= m and at least half >= m
IsMedian(m, f) ==
    /\ \E i \in DOMAIN f : f[i] = m
    /\ 2 * Cardinality({i \in DOMAIN f : f[i] <= m}) >= Cardinality(DOMAIN f)
    /\ 2 * Cardinality({i \in DOMAIN f : f[i] >= m}) >= Cardinality(DOMAIN f)

\* C26: in an EnergyFallback contour a frame is voiced exactly when its RMS
\* level is above -45 dB, whatever the detectors answered, and every voiced
\* frame carries one F0: a median of the relaxed tier's voiced frequencies,
\* or 100 Hz when the relaxed tier found none.
C26_EnergyFallbackContour ==
    (e_pc = "extracted" /\ e_result.used_energy_fallback) =>
        /\ Len(e_result.contour) = Len(e_views)
        /\ \A i \in 1..Len(e_views) :
              is_some(e_result.contour[i].frequency) <=> e_views[i].rms_db > ENERGY_THRESHOLD_DB
        /\ \E f0 \in FallbackFreqs \cup {DEFAULT_F0} :
              /\ \A i \in 1..Len(e_views) :
                    is_some(e_result.contour[i].frequency)
                        => e_result.contour[i].frequency = Some(f0)
              /\ IF DOMAIN RelaxedFrequencies = {} THEN f0 = DEFAULT_F0
                 ELSE IsMedian(f0, RelaxedFrequencies)

\* the relaxed tier found 90, 200 and 120 Hz on quiet frames; the fallback leaves
\* those frames unvoiced and gives the one loud aperiodic frame the median 120 Hz
C26_MedianOnAperiodicFrame ==
    /\ e_pc = "extracted" /\ e_result.used_energy_fallback
    /\ Len(e_views) > 4
    /\ e_views[1].rel = Some(90) /\ e_views[2].rel = Some(200) /\ e_views[3].rel = Some(120)
    /\ e_views[4].rel = None /\ e_views[4].rms_db > ENERGY_THRESHOLD_DB
    /\ \A i \in 1..3 : e_result.contour[i].frequency = None
    /\ e_result.contour[4].frequency = Some(120)


----------------------------------------------------------------------------
(* Properties of percentile (specification SpecPercentile) *)

\* ceil(p * n), p in percent; rank 1 for p = 0
NearestRank(p, n) == IF p = 0 THEN 1 ELSE (p * n + 99) \div 100

\* C27 as stated: the percentile is the element at rank ceil(p * n).
C27_NearestRank ==
    q_pc = "ranged" => q_out.at_p = q_out.sorted[NearestRank(q_p, Len(q_out.sorted))]

\* C27: percentile returns an element of the sorted list, the one whose
\* 0-based index is nearest to p * (n - 1) (a tie goes to the higher index);
\* it is non-decreasing in p, so the 5th percentile never exceeds the 95th.
C27_NearestIndex ==
    q_pc = "ranged" =>
        LET n == Len(q_out.sorted)
        IN /\ \E r \in 1..n :
                /\ q_out.at_p = q_out.sorted[r]
                /\ 100 * (r - 1) - 50 <= q_p * (n - 1)
                /\ q_p * (n - 1) < 100 * (r - 1) + 50
           /\ q_out.f0_low <= q_out.f0_high
           /\ \A p1 \in Percents, p2 \in Percents :
                p1 <= p2 => percentile(q_out.sorted, p1) <= percentile(q_out.sorted, p2)

\* four distinct frequencies, p = 0.5: index round(1.5) = 2, the third element,
\* where rank ceil(0.5 * 4) = 2 is the second
C27_MedianOfFour ==
    /\ q_pc = "ranged" /\ q_p = 50
    /\ q_out.sorted = <<101, 102, 103, 104>>
    /\ q_out.at_p = 103


----------------------------------------------------------------------------
(* Properties of periodicity (specification SpecPeriodicity) *)

\* frames that are voiced and whose mask entry exists and is active
VoicedAndActive ==
    {i \in 1..Len(y_contour) :
        is_some(y_contour[i].frequency) /\ i <= Len(y_active) /\ y_active[i]}

\* the mean of r over the frames of S, None for no frame
MeanOver(S) ==
    IF S = {} THEN None
    ELSE LET t == RSum([i \in 1..Len(y_r) |-> IF i \in S THEN unwrap(y_r[i]) ELSE Zero])
         IN Some(Rat(t[1], t[2] * Cardinality(S)))

\* C28: the periodicity mean is a mean over frames that are voiced and
\* energy-active only; an unvoiced frame, or one whose mask entry is inactive
\* or missing, never contributes; no result when no frame qualifies.
C28_OnlyVoicedActiveFrames ==
    y_pc = "computed" =>
        \E S \in SUBSET {i \in VoicedAndActive : is_some(y_r[i])} :
            y_out.periodicity_mean = MeanOver(S)


----------------------------------------------------------------------------
(* Consistency of the reliability record (specification SpecReliability) *)

\* C29: in a computed reliability record the quality is "trend_only" exactly
\* when the jitter validity flag is false, and a quality of "good" or "ok"
\* implies valid jitter, shimmer and HNR and a voice-breaks validity other
\* than "unavailable".
C29_QualityAgreesWithValidity ==
    r_pc = "computed" =>
        /\ (r_out.analysis_quality = "trend_only") <=> ~r_out.metrics_validity.jitter
        /\ r_out.analysis_quality \in {"good", "ok"} =>
              /\ r_out.metrics_validity.jitter
              /\ r_out.metrics_validity.shimmer
              /\ r_out.metrics_validity.hnr
              /\ r_out.metrics_validity.voice_breaks # "unavailable"

\* relaxed tier dominant, 40% pitched: quality "ok", every flag valid, voice
\* breaks "trend_only"
C29_OkOnRelaxedTier ==
    /\ r_pc = "computed"
    /\ r_out.dominant_tier = 2 /\ r_in.pitched_fraction = <<4, 10>>
    /\ r_out.analysis_quality = "ok"
    /\ r_out.metrics_validity.jitter /\ r_out.metrics_validity.shimmer
    /\ r_out.metrics_validity.hnr
    /\ r_out.metrics_validity.voice_breaks = "trend_only"


----------------------------------------------------------------------------
(* Properties of the recording screens (specification SpecScreen) *)

\* the step is a pass through the auto-stop check
IsPoll == w_pc = "recording" /\ w_event'.kind \in PollEvents(w_screen)

============================================================================
